---- MODULE Spec2Model ----
(***************************************************************************)
(* Smart TabGuard (Goldokpa/tabguard-extension, basic-version).            *)
(*                                                                         *)
(* The extension is three cooperating contexts around the browser's        *)
(* key-value storage:                                                      *)
(*   - the content script of a page    (basic-version/content.ts)          *)
(*   - the popup and the options page  (popup.ts, options.ts)              *)
(*   - the background service worker   (background.ts, services/*.ts)      *)
(* Every await / callback / timer of the source is a separate step here,   *)
(* so the contexts interleave the way the browser's event loop lets them.  *)
(***************************************************************************)
EXTENDS Integers, Sequences, FiniteSets, TLC

(***************************************************************************)
(* Values                                                                  *)
(***************************************************************************)

\* An optional value: <<>> is null / undefined / absent, <<x>> is x.
None == <<>>
Some(x) == <<x>>
IsSome(o) == o # <<>>
Val(o) == o[1]

\* URLs and hostnames are strings, kept as tuples of characters so that
\* toLowerCase(), includes() and URL.hostname are computed, not assumed.
UrlPlain == <<"h", "t", "t", "p", "s", ":", "/", "/", "a", ".", "i", "o", "/", "x">>
UrlBlog == <<"h", "t", "t", "p", "s", ":", "/", "/", "b", ".", "i", "o", "/", "B", "l", "o", "g">>
UrlNews == <<"h", "t", "t", "p", "s", ":", "/", "/", "n", "e", "w", "s", ".", "i", "o", "/">>
UrlDocs == <<"h", "t", "t", "p", "s", ":", "/", "/", "a", ".", "i", "o", "/", "d", "o", "c", "s">>
HostA == <<"a", ".", "i", "o">>
HostB == <<"b", ".", "i", "o">>
HostNews == <<"n", "e", "w", "s", ".", "i", "o">>
KwBlog == <<"b", "l", "o", "g">>
KwArticle == <<"a", "r", "t", "i", "c", "l", "e">>
KwNews == <<"n", "e", "w", "s">>
KwDocs == <<"d", "o", "c", "s">>
KwDrive == <<"d", "r", "i", "v", "e">>
KwOffice == <<"o", "f", "f", "i", "c", "e">>
KwFormTag == <<"<", "f", "o", "r", "m">>
KwInput == <<"i", "n", "p", "u", "t">>
KwTextarea == <<"t", "e", "x", "t", "a", "r", "e", "a">>

Urls == {UrlPlain, UrlBlog, UrlNews, UrlDocs}
Hosts == {HostA, HostB}

UpperChars == <<"A", "B", "C", "D", "E", "F", "G", "H", "I", "J", "K", "L", "M",
                "N", "O", "P", "Q", "R", "S", "T", "U", "V", "W", "X", "Y", "Z">>
LowerChars == <<"a", "b", "c", "d", "e", "f", "g", "h", "i", "j", "k", "l", "m",
                "n", "o", "p", "q", "r", "s", "t", "u", "v", "w", "x", "y", "z">>

\* String.prototype.toLowerCase on one character and on a string.
LowerChar(c) ==
    IF \E i \in 1..Len(UpperChars) : UpperChars[i] = c
    THEN LowerChars[CHOOSE i \in 1..Len(UpperChars) : UpperChars[i] = c]
    ELSE c
ToLowerCase(s) == [i \in 1..Len(s) |-> LowerChar(s[i])]

\* String.prototype.includes: kw occurs in s as a contiguous substring.
StrIncludes(s, kw) ==
    \E i \in 1..(Len(s) - Len(kw) + 1) : SubSeq(s, i, i + Len(kw) - 1) = kw

\* Array.prototype.includes / filter on a list of hostnames.
ListIncludes(list, x) == \E i \in 1..Len(list) : list[i] = x
RECURSIVE ListWithout(_, _)
ListWithout(list, x) ==
    IF list = <<>> THEN <<>>
    ELSE IF Head(list) = x THEN ListWithout(Tail(list), x)
    ELSE <<Head(list)>> \o ListWithout(Tail(list), x)

\* new URL(url).hostname: the characters between "://" and the next "/",
\* lower-cased by the URL parser.
SchemeEnd(url) ==
    CHOOSE i \in 1..Len(url) :
        /\ i + 2 <= Len(url)
        /\ SubSeq(url, i, i + 2) = <<":", "/", "/">>
        /\ \A j \in 1..(i - 1) : url[j] # ":"
HostEnd(url) ==
    LET from == SchemeEnd(url) + 3
        stops == {j \in from..Len(url) : url[j] \in {"/", ":", "?", "#"}}
    IN  IF stops = {} THEN Len(url)
        ELSE (CHOOSE j \in stops : \A k \in stops : j <= k) - 1
Hostname(url) == ToLowerCase(SubSeq(url, SchemeEnd(url) + 3, HostEnd(url)))

(***************************************************************************)
(* State                                                                   *)
(***************************************************************************)
VARIABLES
    \* chrome.storage.sync
    storedSites,        \* key 'protectedSites': list of hostnames
    storedSettings,     \* key 'settings': None or the settings record
    \* chrome.storage.local
    localTab,           \* key 'tab_<id>': None or the TabData record
    \* the browser
    apiSupported,       \* 'Summarizer' in self
    tabOpen,            \* which tabs exist
    now,                \* Date.now(), in days
    messages,           \* runtime.sendMessage requests: how far the listener got, its answers
    \* popup.ts (src/unnamed/part_000) and options.ts
    popup,
    options,
    \* the page of tab PageTab and its content script (content.ts)
    page,               \* the document: its forms, fields and other editable elements
    domValues,          \* the value each form field currently holds
    cs,                 \* the content script's module variables and init progress
    trackers,           \* the FormDataInfo objects the field listeners close over
    feedback,           \* the .smart-tabguard-feedback elements in the document
    feedbackTimers,     \* their pending 5 s removal timers
    feedbackCreated,    \* how many such elements were created so far
    lastStateMsg,       \* the last of UNSAVED_CHANGES_DETECTED / CHANGES_SAVED sent
    lastUnload,         \* what the last beforeunload event produced
    unsavedWork,        \* the script saw an input or field change, and no submit since
    \* background.ts
    summarizationStatus,\* Map tabId -> None | [isProcessing, errorCount]
    tabState,           \* Map tabId -> None | [hasUnsavedChanges]
    icon,               \* the action icon shown for each tab
    iconCalls,          \* updateIcon runs waiting for tabs.get / for the storage read
    updateStage,        \* handleTabUpdate of each tab: "idle" or "extract"
    summaryTimers,      \* armed 2 s timers of handleTabUpdate, per tab
    runs,               \* generateTabSummary runs of each tab, by the await they are at
    summarizer,         \* SummarizerService: "fresh", "pending", "ready", "failed"
    summarizerOptions,  \* the options of its Summarizer.create call, None before
    generateCalls,      \* GENERATE_SUMMARY handlers awaiting extractTabContent, per tab
    startups,           \* onStartup handlers awaiting initialize()
    cleaning,           \* cleanupOldSummaries: None, or its tabsToClean still to remove
    summarizerService,  \* SummarizerService called directly: its fields, attempts, callers
    \* a direct call of a pure function and what it returned
    fnCall

storeVars == <<storedSites, storedSettings, localTab>>
envVars == <<apiSupported, tabOpen, now, messages>>
uiVars == <<popup, options>>
pageVars == <<page, domValues, cs, trackers, feedback, feedbackTimers,
              feedbackCreated, lastStateMsg, lastUnload, unsavedWork>>
bgVars == <<summarizationStatus, tabState, icon, iconCalls, updateStage, summaryTimers,
           runs, summarizer, summarizerOptions, generateCalls, startups, cleaning,
           summarizerService>>
vars == <<storedSites, storedSettings, localTab, apiSupported, tabOpen, now, messages,
          popup, options, page, domValues, cs, trackers, feedback, feedbackTimers,
          feedbackCreated, lastStateMsg, lastUnload, unsavedWork,
          summarizationStatus, tabState, icon, iconCalls, updateStage, summaryTimers,
          runs, summarizer, summarizerOptions, generateCalls, startups, cleaning,
          summarizerService, fnCall>>

Tabs == {1, 2}
\* The page each tab shows, and words of the text extractTabContent finds
\* in it.
TabUrl(t) == IF t = 1 THEN UrlPlain ELSE UrlBlog
TabText(t) == IF t = 1 THEN <<"t", "e", "x", "t">> ELSE <<"p", "o", "s", "t">>

(***************************************************************************)
(* services/storage.ts                                                      *)
(***************************************************************************)
DefaultSettings ==
    [aiFeaturesEnabled |-> TRUE, autoSummarize |-> TRUE, protectedSites |-> <<>>]

GetSettings == IF IsSome(storedSettings) THEN Val(storedSettings) ELSE DefaultSettings
GetProtectedSites == GetSettings.protectedSites
IsAIFeaturesEnabled == GetSettings.aiFeaturesEnabled
IsAutoSummarizeEnabled == GetSettings.autoSummarize

(***************************************************************************)
(* services/summarizer.ts                                                   *)
(***************************************************************************)
IsSupported == apiSupported

\* determineSummaryType with the URL looked at before the content.
DetermineSummaryType_UrlFirst(content, url) ==
    LET urlLower == ToLowerCase(url)
    IN  IF StrIncludes(urlLower, KwBlog) \/ StrIncludes(urlLower, KwArticle)
            \/ StrIncludes(urlLower, KwNews)
        THEN "teaser"
        ELSE IF StrIncludes(urlLower, KwDocs) \/ StrIncludes(urlLower, KwDrive)
            \/ StrIncludes(urlLower, KwOffice)
        THEN "tldr"
        ELSE "key-points"

\* determineSummaryType(content, url)
DetermineSummaryType(content, url) ==
    LET urlLower == ToLowerCase(url)
    IN  IF StrIncludes(content, KwFormTag) \/ StrIncludes(content, KwInput)
            \/ StrIncludes(content, KwTextarea)
        THEN "key-points"
        ELSE IF StrIncludes(urlLower, KwBlog) \/ StrIncludes(urlLower, KwArticle)
            \/ StrIncludes(urlLower, KwNews)
        THEN "teaser"
        ELSE IF StrIncludes(urlLower, KwDocs) \/ StrIncludes(urlLower, KwDrive)
            \/ StrIncludes(urlLower, KwOffice)
        THEN "tldr"
        ELSE "key-points"

\* The config argument of initialize(config = {}) and the options
\* performInitialization passes to Summarizer.create for it.
NoConfig == [type |-> None, length |-> None]
CreateOptions(config) ==
    [type |-> IF IsSome(config.type) THEN Val(config.type) ELSE "key-points",
     length |-> IF IsSome(config.length) THEN Val(config.length) ELSE "medium"]

\* The config SummarizerService.generateTabSummary reinitializes with, and
\* the type and length it records in the TabSummary.
SummaryConfig(content, url) ==
    [type |-> Some(DetermineSummaryType(content, url)), length |-> Some("short")]
NewTabSummary(content, url) ==
    [type |-> DetermineSummaryType(content, url), length |-> "short"]

(***************************************************************************)
(* background.ts: shouldSummarizeTab                                        *)
(***************************************************************************)
MinContentLength == 200

UrlHasSummaryKeyword(url) ==
    LET urlLower == ToLowerCase(url)
    IN  \/ StrIncludes(urlLower, KwBlog)
        \/ StrIncludes(urlLower, KwArticle)
        \/ StrIncludes(urlLower, KwNews)
        \/ StrIncludes(urlLower, KwDocs)

ShouldSummarizeTab(tabId, url, contentLen) ==
    IF ~IsAIFeaturesEnabled THEN FALSE
    ELSE IF ~IsSupported THEN FALSE
    ELSE IF IsSome(summarizationStatus[tabId])
            /\ Val(summarizationStatus[tabId]).isProcessing THEN FALSE
    ELSE IF contentLen < MinContentLength THEN FALSE
    ELSE IF ListIncludes(GetProtectedSites, Hostname(url)) THEN TRUE
    ELSE IF ~IsAutoSummarizeEnabled THEN FALSE
    ELSE UrlHasSummaryKeyword(url)

(***************************************************************************)
(* background.ts: the onMessage listener's sender guard                     *)
(***************************************************************************)
\* A message's sender is the id of the tab it comes from; the popup and the
\* options page are not tabs, so their sender.tab is undefined (0 here).
NoTab == 0
PopupSender == NoTab

\* const tabId = sender.tab?.id; if (!tabId) return;
ListenerHandles(senderTab) == senderTab # NoTab

\* What the listener answers to CHECK_AI_STATUS: None when it answers nothing.
ReplyCheckAIStatus(senderTab) ==
    IF ListenerHandles(senderTab) THEN Some([supported |-> IsSupported]) ELSE None

\* What the listener answers to GET_TAB_SUMMARY: the summary of the SENDER's
\* tab record (the tabId field of the message is not read).
ReplyGetTabSummary(senderTab) ==
    IF ListenerHandles(senderTab)
    THEN Some([summary |-> IF IsSome(localTab[senderTab])
                           THEN Val(localTab[senderTab]).summary ELSE None])
    ELSE None

\* runtime.sendMessage when no listener answers: the browser settles the
\* promise without a response (undefined) or rejects it.
NoReplyOutcomes == {"undefined", "throws"}

(***************************************************************************)
(* popup.ts (src/unnamed/part_000)                                          *)
(***************************************************************************)
MaxSites == 2       \* longest protectedSites list the popup is let to write
MaxPending == 1     \* click handlers awaiting their storage write at once

\* The popup before DOMContentLoaded / after it is closed.
PopupClosed ==
    [stage |-> "closed",
     currentHostname |-> <<>>, currentTabId |-> 0,
     protectedSites |-> <<>>, settings |-> None, loadedSettings |-> None,
     aiToggle |-> FALSE, autoSummarizeToggle |-> FALSE, togglesWired |-> FALSE,
     buttonText |-> "html", buttonDisabled |-> FALSE,
     aiStatusText |-> "html", generateDisabled |-> FALSE,
     recommendations |-> {}, summaryShown |-> None,
     pendingToggle |-> 0, pendingProtect |-> 0, pendingEnableAI |-> 0,
     pendingGenerate |-> 0, reloadTimers |-> 0]

PopupIsOpen == popup.stage # "closed"

\* updateButtonStatus()
UpdateButtonStatus(p) ==
    [p EXCEPT !.buttonText =
        IF ListIncludes(p.protectedSites, p.currentHostname)
        THEN "Unprotect this Site" ELSE "Protect this Site"]

\* generateRecommendations() adding to what is displayed already.
GenerateRecommendations_Adding(p) ==
    [p EXCEPT !.recommendations = @ \cup
        (IF ~ListIncludes(p.protectedSites, p.currentHostname)
         THEN {"protection"} ELSE {})
        \cup
        (IF IsSome(p.settings) /\ ~Val(p.settings).aiFeaturesEnabled
         THEN {"ai"} ELSE {})]

\* generateRecommendations(): there is no await in it, it runs in one piece.
GenerateRecommendations(p) ==
    [p EXCEPT !.recommendations =
        (IF ~ListIncludes(p.protectedSites, p.currentHostname)
         THEN {"protection"} ELSE {})
        \cup
        (IF IsSome(p.settings) /\ ~Val(p.settings).aiFeaturesEnabled
         THEN {"ai"} ELSE {})]

\* DOMContentLoaded: the click listeners are registered, initializePopup()
\* runs up to its first await (chrome.tabs.query).  popup.html is not among
\* the sources: its Generate Summary button starts enabled or disabled.
PopupOpen ==
    /\ popup.stage = "closed"
    /\ \E disabled \in BOOLEAN :
          popup' = [PopupClosed EXCEPT !.stage = "query", !.generateDisabled = disabled]
    /\ UNCHANGED <<storeVars, envVars, options, pageVars, bgVars, fnCall>>

\* chrome.tabs.query resolves with the active tab t (NoTab: a tab without URL).
PopupQueryDone(t) ==
    /\ popup.stage = "query"
    /\ t \in Tabs => tabOpen[t]
    /\ popup' =
        IF t \in Tabs
        THEN [popup EXCEPT !.currentHostname = Hostname(TabUrl(t)),
                           !.currentTabId = t,
                           !.stage = "settings"]
        ELSE [popup EXCEPT !.buttonDisabled = TRUE,
                           !.buttonText = "Cannot determine site",
                           !.stage = "na"]
    /\ UNCHANGED <<storeVars, envVars, options, pageVars, bgVars, fnCall>>

\* loadSettings(): the storage read resolves; the toggles show the settings
\* and get their change listeners.  loadedSettings keeps what the read gave
\* (result.settings or the defaults).
LoadSettings ==
    /\ popup.stage = "settings"
    /\ popup' = [popup EXCEPT !.settings = Some(GetSettings),
                              !.loadedSettings = Some(GetSettings),
                              !.aiToggle = GetSettings.aiFeaturesEnabled,
                              !.autoSummarizeToggle = GetSettings.autoSummarize,
                              !.togglesWired = TRUE,
                              !.stage = "sites"]
    /\ UNCHANGED <<storeVars, envVars, options, pageVars, bgVars, fnCall>>

\* loadProtectedSites(): the storage read resolves.
LoadProtectedSites ==
    /\ popup.stage = "sites"
    /\ popup' = UpdateButtonStatus(
                    [popup EXCEPT !.protectedSites = storedSites, !.stage = "ai"])
    /\ UNCHANGED <<storeVars, envVars, options, pageVars, bgVars, fnCall>>

\* checkAIStatus(): the CHECK_AI_STATUS exchange settles.
CheckAIStatusResult(p, reply, outcome) ==
    IF ~IsSome(reply) /\ outcome = "throws"
    THEN [p EXCEPT !.aiStatusText = "Error checking AI status",
                   !.generateDisabled = TRUE]
    ELSE IF IsSome(reply) /\ Val(reply).supported
    THEN [p EXCEPT !.aiStatusText = "AI features available",
                   !.generateDisabled = FALSE]
    ELSE [p EXCEPT !.aiStatusText = "AI features not available",
                   !.generateDisabled = TRUE]

CheckAIStatus(outcome) ==
    /\ popup.stage = "ai"
    /\ popup' = [CheckAIStatusResult(popup, ReplyCheckAIStatus(PopupSender), outcome)
                    EXCEPT !.stage = "summary"]
    /\ UNCHANGED <<storeVars, envVars, options, pageVars, bgVars, fnCall>>

\* loadTabSummary(): displaySummary / displayNoSummary.
LoadTabSummaryResult(p, reply, outcome) ==
    IF IsSome(reply) /\ IsSome(Val(reply).summary)
    THEN [p EXCEPT !.summaryShown = Val(reply).summary]
    ELSE [p EXCEPT !.summaryShown = None]

\* The last two steps of initializePopup(): loadTabSummary() settles and
\* generateRecommendations() runs.
LoadTabSummary(outcome) ==
    /\ popup.stage = "summary"
    /\ popup' = GenerateRecommendations(
                    [LoadTabSummaryResult(popup, ReplyGetTabSummary(PopupSender), outcome)
                        EXCEPT !.stage = "ready"])
    /\ UNCHANGED <<storeVars, envVars, options, pageVars, bgVars, fnCall>>

\* The list the toggle handler computes from the popup's own copy.
ToggledSites(p) ==
    IF ListIncludes(p.protectedSites, p.currentHostname)
    THEN ListWithout(p.protectedSites, p.currentHostname)
    ELSE Append(p.protectedSites, p.currentHostname)

\* toggleButton 'click': the popup's copy is changed and written as a whole;
\* the handler then awaits the write.
ToggleClick ==
    /\ PopupIsOpen
    /\ ~popup.buttonDisabled
    /\ popup.pendingToggle < MaxPending
    /\ Len(ToggledSites(popup)) <= MaxSites
    /\ popup' = [popup EXCEPT !.protectedSites = ToggledSites(popup),
                              !.pendingToggle = @ + 1]
    /\ storedSites' = ToggledSites(popup)
    /\ UNCHANGED <<storedSettings, localTab, envVars, options, pageVars, bgVars, fnCall>>

\* ... its write has resolved: updateButtonStatus(); generateRecommendations().
ToggleWritten ==
    /\ PopupIsOpen
    /\ popup.pendingToggle > 0
    /\ popup' = GenerateRecommendations(UpdateButtonStatus(
                    [popup EXCEPT !.pendingToggle = @ - 1]))
    /\ UNCHANGED <<storeVars, envVars, options, pageVars, bgVars, fnCall>>

\* toggleButton 'click' whose chrome.storage.sync.set rejects (a quota of
\* the sync area is exceeded): the popup's copy is changed as on every
\* click, nothing is stored, and the catch block logs the error.
ToggleClickWriteFailed ==
    /\ PopupIsOpen
    /\ ~popup.buttonDisabled
    /\ Len(ToggledSites(popup)) <= MaxSites
    /\ popup' = [popup EXCEPT !.protectedSites = ToggledSites(popup)]
    /\ UNCHANGED <<storeVars, envVars, options, pageVars, bgVars, fnCall>>

\* updateSetting(key, value): nothing without loaded settings; else the
\* popup's settings record is changed and written as a whole.
UpdateSettingRecord(p, key, value) ==
    IF ~IsSome(p.settings) THEN p.settings
    ELSE Some([Val(p.settings) EXCEPT ![key] = value])

\* updateSetting writing the record as it was loaded.
UpdateSettingStore_Stale(p, key, value) ==
    IF ~IsSome(p.settings) THEN storedSettings
    ELSE p.settings

UpdateSettingStore(p, key, value) ==
    IF ~IsSome(p.settings) THEN storedSettings
    ELSE UpdateSettingRecord(p, key, value)

\* aiToggle 'change' (the listener exists once loadSettings() has run).
AiToggleChange ==
    /\ PopupIsOpen
    /\ popup.togglesWired
    /\ LET checked == ~popup.aiToggle
       IN /\ popup' = [popup EXCEPT
                 !.aiToggle = checked,
                 !.settings = UpdateSettingRecord(popup, "aiFeaturesEnabled", checked)]
          /\ storedSettings' = UpdateSettingStore(popup, "aiFeaturesEnabled", checked)
    /\ UNCHANGED <<storedSites, localTab, envVars, options, pageVars, bgVars, fnCall>>

\* autoSummarizeToggle 'change'.
AutoSummarizeToggleChange ==
    /\ PopupIsOpen
    /\ popup.togglesWired
    /\ LET checked == ~popup.autoSummarizeToggle
       IN /\ popup' = [popup EXCEPT
                 !.autoSummarizeToggle = checked,
                 !.settings = UpdateSettingRecord(popup, "autoSummarize", checked)]
          /\ storedSettings' = UpdateSettingStore(popup, "autoSummarize", checked)
    /\ UNCHANGED <<storedSites, localTab, envVars, options, pageVars, bgVars, fnCall>>

\* recommendations 'click' on the 'Protect Site' button.
RecommendationProtectClick ==
    /\ PopupIsOpen
    /\ "protection" \in popup.recommendations
    /\ popup.pendingProtect < MaxPending
    /\ Len(popup.protectedSites) < MaxSites
    /\ LET pushed == Append(popup.protectedSites, popup.currentHostname)
       IN /\ popup' = [popup EXCEPT !.protectedSites = pushed,
                                    !.pendingProtect = @ + 1]
          /\ storedSites' = pushed
    /\ UNCHANGED <<storedSettings, localTab, envVars, options, pageVars, bgVars, fnCall>>

\* ... its write has resolved: updateButtonStatus(); generateRecommendations().
RecommendationProtectWritten ==
    /\ PopupIsOpen
    /\ popup.pendingProtect > 0
    /\ popup' = GenerateRecommendations(UpdateButtonStatus(
                    [popup EXCEPT !.pendingProtect = @ - 1]))
    /\ UNCHANGED <<storeVars, envVars, options, pageVars, bgVars, fnCall>>

\* recommendations 'click' on the 'Enable AI' button.
RecommendationEnableAIClick ==
    /\ PopupIsOpen
    /\ "ai" \in popup.recommendations
    /\ popup.pendingEnableAI < MaxPending
    /\ popup' = [popup EXCEPT
            !.aiToggle = TRUE,
            !.settings = UpdateSettingRecord(popup, "aiFeaturesEnabled", TRUE),
            !.pendingEnableAI = @ + 1]
    /\ storedSettings' = UpdateSettingStore(popup, "aiFeaturesEnabled", TRUE)
    /\ UNCHANGED <<storedSites, localTab, envVars, options, pageVars, bgVars, fnCall>>

\* ... its updateSetting() has resolved: generateRecommendations().
RecommendationEnableAIWritten ==
    /\ PopupIsOpen
    /\ popup.pendingEnableAI > 0
    /\ popup' = GenerateRecommendations([popup EXCEPT !.pendingEnableAI = @ - 1])
    /\ UNCHANGED <<storeVars, envVars, options, pageVars, bgVars, fnCall>>

\* generateSummaryBtn 'click': the button is disabled and GENERATE_SUMMARY
\* is sent.
GenerateSummaryClick ==
    /\ PopupIsOpen
    /\ ~popup.generateDisabled
    /\ popup.pendingGenerate < MaxPending
    /\ popup' = [popup EXCEPT !.generateDisabled = TRUE,
                              !.pendingGenerate = @ + 1]
    /\ UNCHANGED <<storeVars, envVars, options, pageVars, bgVars, fnCall>>

\* What the listener answers to a GENERATE_SUMMARY whose sender's tab has a
\* URL and a title: success when content was extracted, else an error; None
\* when it answers nothing.
ReplyGenerateSummary(senderTab, hasContent) ==
    IF ListenerHandles(senderTab) THEN Some([success |-> hasContent]) ELSE None

\* The GENERATE_SUMMARY exchange of the popup settles: on success
\* loadTabSummary is scheduled (setTimeout 1000); finally the button is
\* enabled again.
GenerateSummarySettled(outcome) ==
    /\ PopupIsOpen
    /\ popup.pendingGenerate > 0
    /\ LET reply == ReplyGenerateSummary(PopupSender, TRUE)
           scheduled == IsSome(reply) /\ Val(reply).success
       IN popup' = [popup EXCEPT !.generateDisabled = FALSE,
                                 !.pendingGenerate = @ - 1,
                                 !.reloadTimers = IF scheduled THEN @ + 1 ELSE @]
    /\ UNCHANGED <<storeVars, envVars, options, pageVars, bgVars, fnCall>>

\* The popup is closed: its page, with every pending continuation, is gone.
PopupClose ==
    /\ PopupIsOpen
    /\ popup' = PopupClosed
    /\ UNCHANGED <<storeVars, envVars, options, pageVars, bgVars, fnCall>>

(***************************************************************************)
(* options.ts                                                               *)
(***************************************************************************)
OptionsClosed ==
    [stage |-> "closed", protectedSites |-> <<>>, rendered |-> <<>>, pendingRender |-> 0]

\* DOMContentLoaded of the options page: the storage read is issued.
OptionsOpen ==
    /\ options.stage = "closed"
    /\ options' = [OptionsClosed EXCEPT !.stage = "loading"]
    /\ UNCHANGED <<storeVars, envVars, popup, pageVars, bgVars, fnCall>>

\* The read's callback: the page's copy is set and renderSitesList() runs.
OptionsLoaded ==
    /\ options.stage = "loading"
    /\ options' = [options EXCEPT !.protectedSites = storedSites,
                                  !.rendered = storedSites,
                                  !.stage = "ready"]
    /\ UNCHANGED <<storeVars, envVars, popup, pageVars, bgVars, fnCall>>

\* 'click' on the Remove button rendered for site: the page's copy is
\* filtered and written as a whole.
OptionsRemoveClick(site) ==
    /\ options.stage = "ready"
    /\ ListIncludes(options.rendered, site)
    /\ site # <<>>                      \* if (siteToRemove)
    /\ options.pendingRender < MaxPending
    /\ LET kept == ListWithout(options.protectedSites, site)
       IN /\ options' = [options EXCEPT !.protectedSites = kept,
                                        !.pendingRender = @ + 1]
          /\ storedSites' = kept
    /\ UNCHANGED <<storedSettings, localTab, envVars, popup, pageVars, bgVars, fnCall>>

\* The write's callback: renderSitesList().
OptionsRendered ==
    /\ options.stage = "ready"
    /\ options.pendingRender > 0
    /\ options' = [options EXCEPT !.rendered = options.protectedSites,
                                  !.pendingRender = @ - 1]
    /\ UNCHANGED <<storeVars, envVars, popup, pageVars, bgVars, fnCall>>

OptionsClose ==
    /\ options.stage # "closed"
    /\ options' = OptionsClosed
    /\ UNCHANGED <<storeVars, envVars, popup, pageVars, bgVars, fnCall>>

(***************************************************************************)
(* content.ts: the content script of the page in tab PageTab                *)
(***************************************************************************)
PageTab == 1
\* window.location.hostname
PageHost == Hostname(TabUrl(PageTab))

MaxFeedback == 2    \* completion notifications created in one page life

\* The documents the content script is run on.  A field is its tag and
\* whether it is required; every INPUT is a text input.
Field(tag, required) == [tag |-> tag, required |-> required]
LayoutTwoForms ==
    [forms |-> << <<Field("INPUT", TRUE)>>, <<Field("SELECT", TRUE)>> >>,
     looseInput |-> FALSE, editable |-> FALSE, article |-> FALSE,
     autoSave |-> FALSE, textLength |-> 0]
LayoutOptionalOnly ==
    [forms |-> << <<Field("TEXTAREA", FALSE)>> >>,
     looseInput |-> FALSE, editable |-> FALSE, article |-> FALSE,
     autoSave |-> FALSE, textLength |-> 0]
LayoutNoForm ==
    [forms |-> <<>>,
     looseInput |-> TRUE, editable |-> TRUE, article |-> FALSE,
     autoSave |-> FALSE, textLength |-> 0]
Layouts == {LayoutTwoForms, LayoutOptionalOnly, LayoutNoForm}

FieldValues == {"", " ", "x"}
\* String.prototype.trim on the field values above.
Trim(v) == IF v = " " THEN "" ELSE v

\* Number: NaN is the one value no comparison holds of.
NaN == -1
GreaterThan(x, n) == x # NaN /\ x > n
AtLeast(x, n) == x # NaN /\ x >= n

FormIds == 1..Len(page.forms)
FieldIds(f) == 1..Len(page.forms[f])
AllFields == UNION {{<<f, i>> : i \in FieldIds(f)} : f \in FormIds}

CsStart ==
    [stage |-> "asking", reply |-> None,
     isSiteProtected |-> FALSE, hasUnsavedChanges |-> FALSE, warningShown |-> FALSE,
     currentFormData |-> 0, contentAnalysis |-> None, autoSaveTimer |-> FALSE,
     suggestionShown |-> FALSE, suggestionTimer |-> FALSE, suggestionCreated |-> FALSE]

\* The listener's GET_PROTECTION_STATUS case, from the storage read to
\* sendResponse({ isProtected }).
BgGetProtectionStatus ==
    /\ cs.stage = "asking"
    /\ ListenerHandles(PageTab)
    /\ cs' = [cs EXCEPT !.stage = "answered",
                        !.reply = Some([isProtected |-> ListIncludes(storedSites, PageHost)])]
    /\ UNCHANGED <<storeVars, envVars, uiVars, bgVars, fnCall, page, domValues, trackers,
                   feedback, feedbackTimers, feedbackCreated, lastStateMsg, lastUnload,
                   unsavedWork>>

\* performContentAnalysis()
CeilHalf(n) == (n + 1) \div 2
Max(a, b) == IF a >= b THEN a ELSE b

\* performContentAnalysis() looking for article elements before forms.
PerformContentAnalysis_ArticleFirst ==
    IF page.article
    THEN [contentType |-> "article", complexity |-> "medium",
          estimatedTime |-> page.textLength, riskLevel |-> "low"]
    ELSE IF Len(page.forms) > 0
    THEN [contentType |-> "form", complexity |-> "low", estimatedTime |-> 1,
          riskLevel |-> "low"]
    ELSE [contentType |-> "general", complexity |-> "low",
          estimatedTime |-> 0, riskLevel |-> "low"]

PerformContentAnalysis ==
    LET fields == UNION {{page.forms[f][i] : i \in FieldIds(f)} : f \in FormIds}
        nRequired == Cardinality({<<f, i>> \in AllFields :
                        f \in FormIds /\ i \in FieldIds(f) /\ page.forms[f][i].required})
        nText == Cardinality({<<f, i>> \in AllFields :
                        f \in FormIds /\ i \in FieldIds(f)
                        /\ page.forms[f][i].tag \in {"INPUT", "TEXTAREA"}})
                 + (IF page.looseInput THEN 1 ELSE 0)
    IN  IF Len(page.forms) > 0
        THEN [contentType |-> "form",
              complexity |-> IF Len(page.forms) > 2 THEN "high"
                             ELSE IF Len(page.forms) > 1 THEN "medium" ELSE "low",
              estimatedTime |-> Max(1, CeilHalf(nRequired * 2 + nText * 3)),
              riskLevel |-> IF nRequired > 5 THEN "high"
                            ELSE IF nRequired > 2 THEN "medium" ELSE "low"]
        ELSE IF page.article
        THEN [contentType |-> "article", complexity |-> "medium",
              estimatedTime |-> page.textLength, riskLevel |-> "low"]
        ELSE IF page.editable
        THEN [contentType |-> "document", complexity |-> "high",
              estimatedTime |-> 10, riskLevel |-> "medium"]
        ELSE [contentType |-> "general", complexity |-> "low",
              estimatedTime |-> 0, riskLevel |-> "low"]

\* setupEnhancedFormDetection(): a fresh FormDataInfo for every form of the
\* document, its field values read from the DOM; the listeners of the
\* fields and of the form close over it.  The one of the first form becomes
\* currentFormData.
\* dom holds the field values of the forms of the document at that time.
NewFormData(f, values) ==
    [form |-> f, values |-> values, completionPercentage |-> 0,
     hasUnsavedChanges |-> FALSE]
SetupEnhancedFormDetection(tr, dom) == tr \o [f \in 1..Len(dom) |-> NewFormData(f, dom[f])]
CurrentAfterDetection(tr, current, dom) == IF Len(dom) > 0 THEN Len(tr) + 1 ELSE current

\* setupAutoSaveSuggestions(): whether the 30 s timer is armed.
ArmsAutoSaveTimer(current, analysis) ==
    ~page.autoSave /\ current # 0 /\ analysis.contentType = "form"

\* The response to GET_PROTECTION_STATUS arrives: the rest of
\* initializeContentScript() runs without a further wait.
InitializeContentScript ==
    /\ cs.stage = "answered"
    /\ LET analysis == PerformContentAnalysis
           current == CurrentAfterDetection(trackers, cs.currentFormData, domValues)
       IN cs' = [cs EXCEPT !.stage = "ready",
                           !.reply = None,
                           !.isSiteProtected = @ \/ Val(cs.reply).isProtected,
                           !.contentAnalysis = Some(analysis),
                           !.currentFormData = current,
                           !.autoSaveTimer = ArmsAutoSaveTimer(current, analysis)]
    /\ trackers' = SetupEnhancedFormDetection(trackers, domValues)
    /\ UNCHANGED <<storeVars, envVars, uiVars, bgVars, fnCall, page, domValues,
                   feedback, feedbackTimers, feedbackCreated, lastStateMsg, lastUnload,
                   unsavedWork>>

\* Math.round((completed / required) * 100); 0 / 0 is NaN.
CompletionPercentage(f, values) ==
    LET required == {i \in FieldIds(f) : page.forms[f][i].required}
        completed == {i \in required : Trim(values[i]) # ""}
    IN  IF required = {} THEN NaN
        ELSE (200 * Cardinality(completed) + Cardinality(required))
                \div (2 * Cardinality(required))

\* handleFieldChange(formData, fieldData, field): what it makes of formData.
FieldHasChanged(fd, i, newValue) == fd.values[i] # newValue
HandleFieldChange(fd, i, newValue) ==
    IF FieldHasChanged(fd, i, newValue)
    THEN LET values == [fd.values EXCEPT ![i] = newValue]
         IN [fd EXCEPT !.values = values,
                       !.hasUnsavedChanges = TRUE,
                       !.completionPercentage = CompletionPercentage(fd.form, values)]
    ELSE fd

\* ... and whether it goes on to showCompletionFeedback(formData).
FeedbackThreshold == 80
ShowsCompletionFeedback(fd) ==
    AtLeast(fd.completionPercentage, FeedbackThreshold) /\ ~cs.warningShown

\* showCompletionFeedback() without its setTimeout.
TimersAfterShow_NoTimer(created, n) == feedbackTimers

\* showCompletionFeedback(): the element is appended to the document and
\* its removal timer (5000 ms) is armed.
TimersAfterShow(created, n) == feedbackTimers \cup ((created + 1)..(created + n))

\* The user edits field i of form f to value v: an 'input' event on the
\* field (the 'change' event that follows finds the value unchanged).  It
\* runs the field's listeners (one for every FormDataInfo made for the
\* form), then the document's 'input' listener.
FieldInput(f, i, v) ==
    /\ f \in FormIds /\ i \in FieldIds(f)
    /\ v # domValues[f][i]
    /\ LET listening == cs.stage = "ready"
           hit == {k \in 1..Len(trackers) :
                      trackers[k].form = f /\ FieldHasChanged(trackers[k], i, v)}
           after == [k \in 1..Len(trackers) |->
                      IF k \in hit THEN HandleFieldChange(trackers[k], i, v) ELSE trackers[k]]
           n == Cardinality({k \in hit : ShowsCompletionFeedback(after[k])})
           docHit == listening /\ page.forms[f][i].tag \in {"INPUT", "TEXTAREA"}
       IN /\ feedbackCreated + n <= MaxFeedback
          /\ domValues' = [domValues EXCEPT ![f][i] = v]
          /\ trackers' = after
          /\ feedback' = feedback \cup ((feedbackCreated + 1)..(feedbackCreated + n))
          /\ feedbackTimers' = TimersAfterShow(feedbackCreated, n)
          /\ feedbackCreated' = feedbackCreated + n
          /\ cs' = [cs EXCEPT !.hasUnsavedChanges = @ \/ docHit]
          /\ lastStateMsg' = IF hit # {} \/ docHit
                             THEN "UNSAVED_CHANGES_DETECTED" ELSE lastStateMsg
          /\ unsavedWork' = (unsavedWork \/ hit # {} \/ docHit)
    /\ UNCHANGED <<storeVars, envVars, uiVars, bgVars, fnCall, page, lastUnload>>

\* An 'input' event on an INPUT outside every form: only the document's
\* listener sees it.
LooseInput ==
    /\ page.looseInput
    /\ IF cs.stage = "ready"
       THEN /\ cs' = [cs EXCEPT !.hasUnsavedChanges = TRUE]
            /\ lastStateMsg' = "UNSAVED_CHANGES_DETECTED"
       ELSE UNCHANGED <<cs, lastStateMsg>>
    /\ unsavedWork' = (unsavedWork \/ cs.stage = "ready")
    /\ UNCHANGED <<storeVars, envVars, uiVars, bgVars, fnCall, page, domValues, trackers,
                   feedback, feedbackTimers, feedbackCreated, lastUnload>>

\* An 'input' event on the [contenteditable="true"] element present when
\* setupSmartChangeTracking() ran: its own listener sees it.
EditableInput ==
    /\ page.editable
    /\ IF cs.stage = "ready"
       THEN /\ cs' = [cs EXCEPT !.hasUnsavedChanges = TRUE]
            /\ lastStateMsg' = "UNSAVED_CHANGES_DETECTED"
       ELSE UNCHANGED <<cs, lastStateMsg>>
    /\ unsavedWork' = (unsavedWork \/ cs.stage = "ready")
    /\ UNCHANGED <<storeVars, envVars, uiVars, bgVars, fnCall, page, domValues, trackers,
                   feedback, feedbackTimers, feedbackCreated, lastUnload>>

\* handleFormSubmit(formData): what it makes of formData.
HandleFormSubmit(fd) ==
    [fd EXCEPT !.hasUnsavedChanges = FALSE, !.completionPercentage = 100]

\* document.querySelector('.smart-tabguard-feedback'): the first one in the
\* document, that is the oldest still there.
FirstFeedback(live) == CHOOSE id \in live : \A other \in live : id <= other
RECURSIVE RemoveFirstFeedback(_, _)
RemoveFirstFeedback(live, times) ==
    IF times = 0 \/ live = {} THEN live
    ELSE RemoveFirstFeedback(live \ {FirstFeedback(live)}, times - 1)

\* A 'submit' event on form f: handleFormSubmit runs once for every
\* FormDataInfo made for that form.
SubmitEvent(f) ==
    /\ f \in FormIds
    /\ LET hit == {k \in 1..Len(trackers) : trackers[k].form = f}
       IN /\ trackers' = [k \in 1..Len(trackers) |->
                            IF k \in hit THEN HandleFormSubmit(trackers[k]) ELSE trackers[k]]
          /\ feedback' = RemoveFirstFeedback(feedback, Cardinality(hit))
          /\ lastStateMsg' = IF hit # {} THEN "CHANGES_SAVED" ELSE lastStateMsg
    /\ unsavedWork' = FALSE
    /\ UNCHANGED <<storeVars, envVars, uiVars, bgVars, fnCall, page, domValues,
                   feedbackTimers, feedbackCreated, lastUnload>>

\* The user submits form f.
FormSubmit(f) ==
    /\ SubmitEvent(f)
    /\ UNCHANGED cs

MaxForms == 2       \* forms in the document

\* The page's own script appends an element to the document.  The
\* MutationObserver callback looks for forms inside the added node
\* (element.querySelectorAll('form') does not match the node itself) and on
\* finding one runs setupEnhancedFormDetection() over the whole document.
\* form is the new form with empty fields; wrapped tells whether it lies
\* inside the added node or is the added node.
FormAdded(form, wrapped) ==
    /\ Len(page.forms) < MaxForms
    /\ page' = [page EXCEPT !.forms = Append(@, form)]
    /\ LET dom == Append(domValues, [i \in 1..Len(form) |-> ""])
       IN /\ domValues' = dom
          /\ IF wrapped
             THEN /\ trackers' = SetupEnhancedFormDetection(trackers, dom)
                  /\ cs' = [cs EXCEPT
                        !.currentFormData = CurrentAfterDetection(trackers, @, dom)]
             ELSE UNCHANGED <<trackers, cs>>
    /\ UNCHANGED <<storeVars, envVars, uiVars, bgVars, fnCall, feedback, feedbackTimers,
                   feedbackCreated, lastStateMsg, lastUnload, unsavedWork>>

\* The 'beforeunload' listener: whether it warns ...
WarnsOnUnload ==
    /\ cs.stage = "ready"
    /\ cs.isSiteProtected
    /\ \/ cs.hasUnsavedChanges
       \/ cs.currentFormData # 0 /\ trackers[cs.currentFormData].hasUnsavedChanges

\* ... and with which message.
Message(kind, percentage, contentType, estimatedTime) ==
    [kind |-> kind, percentage |-> percentage, contentType |-> contentType,
     estimatedTime |-> estimatedTime]
\* The choice with the percentage message taken from 0 % on.
WarningMessage_FromZero ==
    IF cs.currentFormData # 0
            /\ AtLeast(trackers[cs.currentFormData].completionPercentage, 0)
    THEN Message("percent", trackers[cs.currentFormData].completionPercentage, "", 0)
    ELSE IF cs.currentFormData # 0 /\ IsSome(cs.contentAnalysis)
    THEN Message("analysis", 0, Val(cs.contentAnalysis).contentType,
                 Val(cs.contentAnalysis).estimatedTime)
    ELSE Message("generic", 0, "", 0)

WarningMessage ==
    IF cs.currentFormData # 0
            /\ GreaterThan(trackers[cs.currentFormData].completionPercentage, 0)
    THEN Message("percent", trackers[cs.currentFormData].completionPercentage, "", 0)
    ELSE IF cs.currentFormData # 0 /\ IsSome(cs.contentAnalysis)
    THEN Message("analysis", 0, Val(cs.contentAnalysis).contentType,
                 Val(cs.contentAnalysis).estimatedTime)
    ELSE Message("generic", 0, "", 0)

\* The user tries to leave the page: a 'beforeunload' event.
BeforeUnload ==
    /\ lastUnload' = IF WarnsOnUnload
                     THEN Some([warned |-> TRUE, message |-> WarningMessage])
                     ELSE Some([warned |-> FALSE, message |-> Message("none", 0, "", 0)])
    /\ UNCHANGED <<storeVars, envVars, uiVars, bgVars, fnCall, page, domValues, cs, trackers,
                   feedback, feedbackTimers, feedbackCreated, lastStateMsg, unsavedWork>>

\* 'click' on the close button of notification id.
FeedbackClose(id) ==
    /\ id \in feedback
    /\ feedback' = feedback \ {id}
    /\ cs' = [cs EXCEPT !.warningShown = TRUE]
    /\ UNCHANGED <<storeVars, envVars, uiVars, bgVars, fnCall, page, domValues, trackers,
                   feedbackTimers, feedbackCreated, lastStateMsg, lastUnload, unsavedWork>>

\* The 5 s timer of notification id fires: it is removed if still there.
FeedbackTimeout(id) ==
    /\ id \in feedbackTimers
    /\ feedbackTimers' = feedbackTimers \ {id}
    /\ feedback' = feedback \ {id}
    /\ UNCHANGED <<storeVars, envVars, uiVars, bgVars, fnCall, page, domValues, cs, trackers,
                   feedbackCreated, lastStateMsg, lastUnload, unsavedWork>>

\* showAutoSaveSuggestion(): whether it gets past its first line.
ShowsAutoSaveSuggestion ==
    /\ ~cs.warningShown
    /\ cs.currentFormData # 0
    /\ trackers[cs.currentFormData].hasUnsavedChanges

\* The 30 s timer of setupAutoSaveSuggestions() fires, once:
\* showAutoSaveSuggestion() appends the suggestion and arms its 10 s removal
\* timer, or returns.
AutoSaveTimerFired ==
    /\ cs.autoSaveTimer
    /\ cs' = [cs EXCEPT !.autoSaveTimer = FALSE,
                        !.suggestionShown = ShowsAutoSaveSuggestion,
                        !.suggestionTimer = ShowsAutoSaveSuggestion,
                        !.suggestionCreated = ShowsAutoSaveSuggestion]
    /\ UNCHANGED <<storeVars, envVars, uiVars, bgVars, fnCall, page, domValues, trackers,
                   feedback, feedbackTimers, feedbackCreated, lastStateMsg, lastUnload,
                   unsavedWork>>

\* 'click' on the suggestion's 'Save Now': the first save button of the
\* document, if there is one, is clicked, which submits its form f (NoForm:
\* no such button, or its click submits nothing); the suggestion is removed.
NoForm == 0
SuggestionSaveNow(f) ==
    /\ cs.suggestionShown
    /\ cs' = [cs EXCEPT !.suggestionShown = FALSE]
    /\ IF f = NoForm
       THEN UNCHANGED <<storeVars, envVars, uiVars, bgVars, fnCall, page, domValues, trackers,
                        feedback, feedbackTimers, feedbackCreated, lastStateMsg, lastUnload,
                        unsavedWork>>
       ELSE SubmitEvent(f)

\* 'click' on the suggestion's close button.
SuggestionClose ==
    /\ cs.suggestionShown
    /\ cs' = [cs EXCEPT !.suggestionShown = FALSE]
    /\ UNCHANGED <<storeVars, envVars, uiVars, bgVars, fnCall, page, domValues, trackers,
                   feedback, feedbackTimers, feedbackCreated, lastStateMsg, lastUnload,
                   unsavedWork>>

\* The 10 s timer of the suggestion fires: it is removed if still there.
SuggestionTimeout ==
    /\ cs.suggestionTimer
    /\ cs' = [cs EXCEPT !.suggestionShown = FALSE, !.suggestionTimer = FALSE]
    /\ UNCHANGED <<storeVars, envVars, uiVars, bgVars, fnCall, page, domValues, trackers,
                   feedback, feedbackTimers, feedbackCreated, lastStateMsg, lastUnload,
                   unsavedWork>>

\* A page on which no content script is looked at.
PageIdle ==
    /\ page = LayoutNoForm
    /\ domValues = <<>>
    /\ cs = CsStart
    /\ trackers = <<>>
    /\ feedback = {} /\ feedbackTimers = {} /\ feedbackCreated = 0
    /\ lastStateMsg = "none"
    /\ lastUnload = None
    /\ unsavedWork = FALSE

(***************************************************************************)
(* background.ts: tabState and updateIcon                                   *)
(***************************************************************************)
MaxIconCalls == 1   \* updateIcon runs of one tab in flight

IconDefault == "icons/icon.png"
IconWarning == "icons/icon-warning.png"

\* new URL(tab.url).hostname of each tab
TabHosts == [t \in Tabs |-> Hostname(TabUrl(t))]
TabHost(t) == TabHosts[t]

\* The listener's UNSAVED_CHANGES_DETECTED case: tabState is set and
\* updateIcon(tabId) runs up to its await of chrome.tabs.get.
BgOnUnsavedChanges(t) ==
    /\ tabOpen[t]
    /\ ListenerHandles(t)
    /\ iconCalls[t].get + iconCalls[t].sync < MaxIconCalls
    /\ tabState' = [tabState EXCEPT ![t] = Some([hasUnsavedChanges |-> TRUE])]
    /\ iconCalls' = [iconCalls EXCEPT ![t].get = @ + 1]
    /\ UNCHANGED <<storeVars, envVars, uiVars, pageVars, fnCall, summarizationStatus, icon,
                   updateStage, summaryTimers, runs, summarizer, summarizerOptions,
                   generateCalls, startups, cleaning, summarizerService>>

\* The listener's CHANGES_SAVED case: tabState is set and updateIcon(tabId)
\* puts the default icon back and returns.
BgOnChangesSaved(t) ==
    /\ tabOpen[t]
    /\ ListenerHandles(t)
    /\ tabState' = [tabState EXCEPT ![t] = Some([hasUnsavedChanges |-> FALSE])]
    /\ icon' = [icon EXCEPT ![t] = IconDefault]
    /\ UNCHANGED <<storeVars, envVars, uiVars, pageVars, fnCall, summarizationStatus, iconCalls,
                   updateStage, summaryTimers, runs, summarizer, summarizerOptions,
                   generateCalls, startups, cleaning, summarizerService>>

\* updateIcon: chrome.tabs.get settles.  It rejects for a tab that is gone,
\* which ends the run; else the storage read is issued.
IconTabsGetDone(t) ==
    /\ iconCalls[t].get > 0
    /\ iconCalls' = IF tabOpen[t]
                    THEN [iconCalls EXCEPT ![t].get = @ - 1, ![t].sync = @ + 1]
                    ELSE [iconCalls EXCEPT ![t].get = @ - 1]
    /\ UNCHANGED <<storeVars, envVars, uiVars, pageVars, fnCall, summarizationStatus, tabState,
                   icon, updateStage, summaryTimers, runs, summarizer, summarizerOptions,
                   generateCalls, startups, cleaning, summarizerService>>

\* The check with every site taken as protected.
IconAfterCheck_NoCheck(t) == IconWarning

\* if (protectedSites.includes(hostname)) setIcon(warning)
IconAfterCheck(t) ==
    IF ListIncludes(storedSites, TabHost(t)) THEN IconWarning ELSE icon[t]

\* updateIcon: the callback of chrome.storage.sync.get(['protectedSites']).
IconStorageDone(t) ==
    /\ iconCalls[t].sync > 0
    /\ iconCalls' = [iconCalls EXCEPT ![t].sync = @ - 1]
    /\ icon' = IF tabOpen[t] THEN [icon EXCEPT ![t] = IconAfterCheck(t)] ELSE icon
    /\ UNCHANGED <<storeVars, envVars, uiVars, pageVars, fnCall, summarizationStatus, tabState,
                   updateStage, summaryTimers, runs, summarizer, summarizerOptions,
                   generateCalls, startups, cleaning, summarizerService>>

\* chrome.tabs.onRemoved: the tab's entries are dropped.
TabRemoved(t) ==
    /\ tabOpen[t]
    /\ tabOpen' = [tabOpen EXCEPT ![t] = FALSE]
    /\ tabState' = [tabState EXCEPT ![t] = None]
    /\ summarizationStatus' = [summarizationStatus EXCEPT ![t] = None]
    /\ localTab' = [localTab EXCEPT ![t] = None]
    /\ UNCHANGED <<storedSites, storedSettings, apiSupported, now, messages, uiVars, pageVars,
                   fnCall,
                   icon, iconCalls, updateStage, summaryTimers, runs, summarizer, summarizerOptions,
                   generateCalls, startups, cleaning, summarizerService>>

(***************************************************************************)
(* background.ts: handleTabUpdate and generateTabSummary;                    *)
(* services/summarizer.ts: initialize                                       *)
(***************************************************************************)
MaxRuns == 2        \* generateTabSummary runs of one tab, started or on a timer

HasUnsavedChanges(t) == IsSome(tabState[t]) /\ Val(tabState[t]).hasUnsavedChanges

\* The record handleTabUpdate saves under 'tab_<id>'.
NewTabData(t) ==
    [hasUnsavedChanges |-> HasUnsavedChanges(t), summary |-> None, lastUpdated |-> now]

\* The runs of generateTabSummary for one tab: how many await initialize(),
\* how many await summarize(), and of those in updateTabSummary what
\* getTabData returned to each, in the order of the reads.
NoRuns == [init |-> 0, summarize |-> 0, update |-> <<>>]
RunsOf(t) == runs[t].init + runs[t].summarize + Len(runs[t].update)

\* chrome.tabs.onUpdated with status 'complete' for a tab with url and
\* title: extractTabContent is awaited.
TabUpdated(t) ==
    /\ tabOpen[t]
    /\ updateStage[t] = "idle"
    /\ updateStage' = [updateStage EXCEPT ![t] = "extract"]
    /\ UNCHANGED <<storeVars, envVars, uiVars, pageVars, fnCall, summarizationStatus, tabState,
                   icon, iconCalls, summaryTimers, runs, summarizer, summarizerOptions,
                   generateCalls, startups, cleaning, summarizerService>>

\* extractTabContent resolves with content of contentLen characters (none
\* when the script could not run): handleTabUpdate asks shouldSummarizeTab,
\* arms the 2 s timer on yes, and saves the tab's record.  The step is the
\* last await of handleTabUpdate settling: shouldSummarizeTab and
\* saveTabData await chrome.storage after the content was extracted, so the
\* tab may have been closed in between.
ExtractTabContentDone(t, contentLen) ==
    /\ updateStage[t] = "extract"
    /\ updateStage' = [updateStage EXCEPT ![t] = "idle"]
    /\ IF contentLen = 0
       THEN UNCHANGED <<summaryTimers, localTab>>
       ELSE LET should == ShouldSummarizeTab(t, TabUrl(t), contentLen)
            IN /\ should => summaryTimers[t] + RunsOf(t) < MaxRuns
               /\ summaryTimers' = [summaryTimers EXCEPT ![t] = IF should THEN @ + 1 ELSE @]
               /\ localTab' = [localTab EXCEPT ![t] = Some(NewTabData(t))]
    /\ UNCHANGED <<storedSites, storedSettings, envVars, uiVars, pageVars, fnCall,
                   summarizationStatus, tabState, icon, iconCalls, runs,
                   summarizer, summarizerOptions,
                   generateCalls, startups, cleaning, summarizerService>>

\* SummarizerService.initialize() calling performInitialization again after
\* a failure.
Initialize_Retrying(service) == IF service \in {"fresh", "failed"} THEN "pending" ELSE service

\* SummarizerService.initialize(): a first call starts performInitialization;
\* a later one returns the same promise, or at once when initialized.
Initialize(service) == IF service = "fresh" THEN "pending" ELSE service

\* initialize(config) taking the config of every call.
InitializeOptions_EveryCall(service, created, config) == Some(CreateOptions(config))

\* ... only the call that starts performInitialization hands its config on.
InitializeOptions(service, created, config) ==
    IF service = "fresh" THEN Some(CreateOptions(config)) ELSE created

\* generateTabSummary(tabId, ...) up to its first await: the tab is marked
\* as processing and summarizerService.initialize() is called.
StartGenerateTabSummary(t) ==
    /\ summarizationStatus' = [summarizationStatus EXCEPT
            ![t] = Some([isProcessing |-> TRUE, errorCount |-> 0])]
    /\ summarizer' = Initialize(summarizer)
    /\ summarizerOptions' = InitializeOptions(summarizer, summarizerOptions, NoConfig)
    /\ runs' = [runs EXCEPT ![t].init = @ + 1]

\* The 2 s timer of handleTabUpdate fires: generateTabSummary starts.
SummaryTimerFired(t) ==
    /\ summaryTimers[t] > 0
    /\ summaryTimers' = [summaryTimers EXCEPT ![t] = @ - 1]
    /\ StartGenerateTabSummary(t)
    /\ UNCHANGED <<storeVars, envVars, uiVars, pageVars, fnCall, tabState, icon, iconCalls,
                   updateStage, generateCalls, startups, cleaning, summarizerService>>

\* The listener's GENERATE_SUMMARY case for a message sent from tab t:
\* chrome.tabs.get answers with the tab, extractTabContent is awaited.
BgOnGenerateSummary(t) ==
    /\ tabOpen[t]
    /\ ListenerHandles(t)
    /\ generateCalls[t] < MaxPending
    /\ generateCalls' = [generateCalls EXCEPT ![t] = @ + 1]
    /\ UNCHANGED <<storeVars, envVars, uiVars, pageVars, fnCall, summarizationStatus, tabState,
                   icon, iconCalls, updateStage, summaryTimers, runs,
                   summarizer, summarizerOptions, startups, cleaning, summarizerService>>

\* ... extractTabContent resolves: with content generateTabSummary starts
\* (shouldSummarizeTab is not asked), without content nothing does.  The
\* script cannot run in a closed tab: extractTabContent returns ''.
GenerateSummaryExtracted(t, contentLen) ==
    /\ generateCalls[t] > 0
    /\ generateCalls' = [generateCalls EXCEPT ![t] = @ - 1]
    /\ ~tabOpen[t] => contentLen = 0
    /\ IF contentLen = 0
       THEN UNCHANGED <<summarizationStatus, summarizer, summarizerOptions, runs>>
       ELSE /\ summaryTimers[t] + RunsOf(t) < MaxRuns
            /\ StartGenerateTabSummary(t)
    /\ UNCHANGED <<storeVars, envVars, uiVars, pageVars, fnCall, tabState, icon, iconCalls,
                   updateStage, summaryTimers, startups, cleaning, summarizerService>>

\* performInitialization settles: the summarizer is ready, or it threw
\* (API missing, availability 'unavailable', create failed).
InitializationOutcomes == {"ready", "failed"}
PerformInitializationSettled(outcome) ==
    /\ summarizer = "pending"
    /\ ~apiSupported => outcome = "failed"
    /\ summarizer' = outcome
    /\ UNCHANGED <<storeVars, envVars, uiVars, pageVars, fnCall, summarizationStatus, tabState,
                   icon, iconCalls, updateStage, summaryTimers, runs, summarizerOptions,
                   generateCalls, startups, cleaning, summarizerService>>

\* The catch block of generateTabSummary leaving isProcessing as it is.
StatusAfterError_StillProcessing(status) ==
    IF IsSome(status)
    THEN Some([isProcessing |-> Val(status).isProcessing,
               errorCount |-> Val(status).errorCount + 1])
    ELSE status

\* The catch block of generateTabSummary.
StatusAfterError(status) ==
    IF IsSome(status)
    THEN Some([isProcessing |-> FALSE, errorCount |-> Val(status).errorCount + 1])
    ELSE status

\* generateTabSummary after its await of initialize(): on success
\* summarizerService.generateTabSummary reinitializes with the type it
\* determined (this.summarizer is set) and calls summarize(content).
GenerateAfterInitialize(t) ==
    /\ runs[t].init > 0
    /\ summarizer \in {"ready", "failed"}
    /\ IF summarizer = "ready"
       THEN /\ runs' = [runs EXCEPT ![t].init = @ - 1, ![t].summarize = @ + 1]
            /\ summarizerOptions' = InitializeOptions(summarizer, summarizerOptions,
                                        SummaryConfig(TabText(t), TabUrl(t)))
            /\ UNCHANGED summarizationStatus
       ELSE /\ runs' = [runs EXCEPT ![t].init = @ - 1]
            /\ summarizationStatus' = [summarizationStatus EXCEPT ![t] = StatusAfterError(@)]
            /\ UNCHANGED summarizerOptions
    /\ UNCHANGED <<storeVars, envVars, uiVars, pageVars, fnCall, tabState, icon, iconCalls,
                   updateStage, summaryTimers, summarizer, generateCalls, startups, cleaning,
                   summarizerService>>

\* summarize() settles.  On success updateTabSummary(tabId, summary) is
\* called and its getTabData(tabId) reads the tab's record; else the error
\* is counted.
SummarizeSettled(t, ok) ==
    /\ runs[t].summarize > 0
    /\ IF ok
       THEN /\ runs' = [runs EXCEPT ![t].summarize = @ - 1,
                                    ![t].update = Append(@, localTab[t])]
            /\ UNCHANGED summarizationStatus
       ELSE /\ runs' = [runs EXCEPT ![t].summarize = @ - 1]
            /\ summarizationStatus' = [summarizationStatus EXCEPT ![t] = StatusAfterError(@)]
    /\ UNCHANGED <<storeVars, envVars, uiVars, pageVars, fnCall, tabState,
                   icon, iconCalls, updateStage, summaryTimers, summarizer, summarizerOptions,
                   generateCalls, startups, cleaning, summarizerService>>

\* storageService.updateTabSummary(tabId, summary) after its getTabData:
\* the record it hands to saveTabData, None when it saves nothing.
UpdateTabSummary(tabData, summary) ==
    IF IsSome(tabData)
    THEN Some([Val(tabData) EXCEPT !.summary = Some(summary), !.lastUpdated = now])
    ELSE None

\* generateTabSummary leaving the tab marked after its summary is stored.
StatusAfterSuccess_StillProcessing == Some([isProcessing |-> TRUE, errorCount |-> 0])

\* generateTabSummary after updateTabSummary: the status it sets.
StatusAfterSuccess == Some([isProcessing |-> FALSE, errorCount |-> 0])

\* ... getTabData has returned to the oldest such run of tab t: the record
\* it read is saved with the summary, if it read one, and the tab is no
\* longer processing.
UpdateTabSummarySaved(t) ==
    /\ runs[t].update # <<>>
    /\ runs' = [runs EXCEPT ![t].update = Tail(@)]
    /\ LET saved == UpdateTabSummary(Head(runs[t].update),
                                     NewTabSummary(TabText(t), TabUrl(t)))
       IN localTab' = IF IsSome(saved) THEN [localTab EXCEPT ![t] = saved] ELSE localTab
    /\ summarizationStatus' = [summarizationStatus EXCEPT ![t] = StatusAfterSuccess]
    /\ UNCHANGED <<storedSites, storedSettings, envVars, uiVars, pageVars, fnCall, tabState,
                   icon, iconCalls, updateStage, summaryTimers, summarizer, summarizerOptions,
                   generateCalls, startups, cleaning, summarizerService>>

\* chrome.runtime.onStartup: summarizerService.initialize() is awaited.
\* The event fires once when the browser starts: one handler is in flight.
Startup ==
    /\ startups = 0 /\ cleaning = None
    /\ startups' = startups + 1
    /\ summarizer' = Initialize(summarizer)
    /\ summarizerOptions' = InitializeOptions(summarizer, summarizerOptions, NoConfig)
    /\ UNCHANGED <<storeVars, envVars, uiVars, pageVars, fnCall, summarizationStatus, tabState,
                   icon, iconCalls, updateStage, summaryTimers, runs, generateCalls,
                   cleaning, summarizerService>>

\* getDefaultSettings().summaryRetentionDays, which every stored settings
\* record carries
SummaryRetentionDays == 7

\* cleanupOldSummaries(): tabsToClean, the tabs whose record in allTabData
\* is older than the retention time and has no unsaved changes.
TabsToClean(allTabData, cutoffTime) ==
    {t \in Tabs : /\ IsSome(allTabData[t])
                  /\ Val(allTabData[t]).lastUpdated < cutoffTime
                  /\ ~Val(allTabData[t]).hasUnsavedChanges}

\* ... initialize() has settled: the error is caught, or
\* cleanupOldSummaries() reads the settings and all records and starts to
\* remove those of tabsToClean.
StartupAfterInitialize ==
    /\ startups > 0
    /\ summarizer \in {"ready", "failed"}
    /\ startups' = startups - 1
    /\ LET tabsToClean == TabsToClean(localTab, now - SummaryRetentionDays)
       IN cleaning' = IF summarizer = "ready" /\ tabsToClean # {}
                      THEN Some(tabsToClean) ELSE None
    /\ UNCHANGED <<storeVars, envVars, uiVars, pageVars, fnCall,
                   summarizationStatus, tabState, icon, iconCalls, updateStage, summaryTimers,
                   runs, summarizer, summarizerOptions, generateCalls, summarizerService>>

\* ... one await of removeTabData(tab.tabId) in its loop over tabsToClean.
CleanupRemoveTabData(t) ==
    /\ IsSome(cleaning) /\ t \in Val(cleaning)
    /\ localTab' = [localTab EXCEPT ![t] = None]
    /\ cleaning' = IF Val(cleaning) = {t} THEN None ELSE Some(Val(cleaning) \ {t})
    /\ UNCHANGED <<storedSites, storedSettings, envVars, uiVars, pageVars, fnCall,
                   summarizationStatus, tabState, icon, iconCalls, updateStage, summaryTimers,
                   runs, summarizer, summarizerOptions, generateCalls, startups, summarizerService>>

\* Time passes.
MaxDays == 8
TimePasses(days) ==
    /\ now + days <= MaxDays
    /\ now' = now + days
    /\ UNCHANGED <<storeVars, apiSupported, tabOpen, messages, uiVars, pageVars, bgVars, fnCall>>

(***************************************************************************)
(* background.ts: the onMessage listener, request by request                *)
(***************************************************************************)
\* The requests whose sender awaits an answer, and who sends them: the
\* popup, or a page in tab PageTab.
RequestActions == {"GET_PROTECTION_STATUS", "GENERATE_SUMMARY", "GET_TAB_SUMMARY",
                   "CHECK_AI_STATUS"}
Senders == {PopupSender, PageTab}

\* A request is "none" (not sent), "delivered" (the listener is about to
\* run), "waiting" (the listener returned true with an asynchronous call
\* pending; for GENERATE_SUMMARY first "tabsGet", then "extract"), "closed"
\* (the listener returned without true: the channel is closed), "lost" (the
\* callback ended without sendResponse) or "answered".  replies are the
\* arguments of its sendResponse calls.
NoRequest == [stage |-> "none", replies |-> <<>>]
NoMessages == messages = [a \in RequestActions, s \in Senders |-> NoRequest]

\* What the listener answers to GET_PROTECTION_STATUS; message.hostname is
\* the hostname of the sender's page.
ReplyGetProtectionStatus(senderTab) ==
    IF ListenerHandles(senderTab)
    THEN Some([isProtected |-> ListIncludes(storedSites, TabHost(senderTab))])
    ELSE None

\* chrome.runtime.sendMessage({ action, ... }) from the popup or from the
\* page of an open tab.
SendMessage(action, sender) ==
    /\ messages[action, sender].stage = "none"
    /\ sender # PopupSender => tabOpen[sender]
    /\ messages' = [messages EXCEPT ![action, sender].stage = "delivered"]
    /\ UNCHANGED <<storeVars, apiSupported, tabOpen, now, uiVars, pageVars, bgVars, fnCall>>

\* The listener runs for a request: it returns at once for a sender without
\* a tab id, else it starts the asynchronous call of the case and returns
\* true.
ListenerReturns(action, sender) ==
    IF ~ListenerHandles(sender) THEN "closed"
    ELSE IF action = "GENERATE_SUMMARY" THEN "tabsGet"
    ELSE "waiting"

OnMessage(action, sender) ==
    /\ messages[action, sender].stage = "delivered"
    /\ messages' = [messages EXCEPT ![action, sender].stage = ListenerReturns(action, sender)]
    /\ UNCHANGED <<storeVars, apiSupported, tabOpen, now, uiVars, pageVars, bgVars, fnCall>>

\* The storage read, getTabData or isSupported of the case settles and its
\* callback calls sendResponse.
SendResponse(action, sender) ==
    /\ messages[action, sender].stage = "waiting"
    /\ LET reply == CASE action = "GET_PROTECTION_STATUS" -> ReplyGetProtectionStatus(sender)
                       [] action = "GET_TAB_SUMMARY" -> ReplyGetTabSummary(sender)
                       [] action = "CHECK_AI_STATUS" -> ReplyCheckAIStatus(sender)
       IN messages' = [messages EXCEPT ![action, sender] =
                          [stage |-> "answered", replies |-> Append(@.replies, Val(reply))]]
    /\ UNCHANGED <<storeVars, apiSupported, tabOpen, now, uiVars, pageVars, bgVars, fnCall>>

\* The GENERATE_SUMMARY case: the callback of chrome.tabs.get runs.  For a
\* tab that is gone it gets no tab and throws reading tab.url; else
\* extractTabContent is awaited.
GenerateSummaryTabsGet(sender) ==
    /\ messages["GENERATE_SUMMARY", sender].stage = "tabsGet"
    /\ messages' = [messages EXCEPT !["GENERATE_SUMMARY", sender].stage =
                        IF tabOpen[sender] THEN "extract" ELSE "lost"]
    /\ UNCHANGED <<storeVars, apiSupported, tabOpen, now, uiVars, pageVars, bgVars, fnCall>>

\* ... extractTabContent resolves: with content generateTabSummary starts
\* and success is answered, without content the error is answered.
GenerateSummaryAnswered(sender, contentLen) ==
    /\ messages["GENERATE_SUMMARY", sender].stage = "extract"
    /\ ~tabOpen[sender] => contentLen = 0
    /\ messages' = [messages EXCEPT !["GENERATE_SUMMARY", sender] =
            [stage |-> "answered",
             replies |-> Append(@.replies, Val(ReplyGenerateSummary(sender, contentLen # 0)))]]
    /\ IF contentLen = 0
       THEN UNCHANGED <<summarizationStatus, summarizer, summarizerOptions, runs>>
       ELSE /\ summaryTimers[sender] + RunsOf(sender) < MaxRuns
            /\ StartGenerateTabSummary(sender)
    /\ UNCHANGED <<storeVars, apiSupported, tabOpen, now, uiVars, pageVars, fnCall, tabState,
                   icon, iconCalls, updateStage, summaryTimers, generateCalls, startups,
                   cleaning, summarizerService>>

(***************************************************************************)
(* services/summarizer.ts: SummarizerService called directly, with dispose. *)
(* The background never calls dispose: there the summarizerService is fresh, pending, *)
(* ready or failed (summarizer).                                            *)
(***************************************************************************)
MaxInitializeCalls == 4     \* initialize() calls
MaxDisposals == 1           \* dispose() calls

\* The summarizerService after its construction.  summarizer and initializationPromise
\* are null (0) or name the performInitialization attempt they come from;
\* an attempt is at "availability", "create" or "ready" (the await it is
\* at), "resolved" or "rejected"; callers holds for each initialize() call
\* the attempt whose promise it got (0 when initialize returned at once)
\* and how its await of initialize() ended, "pending" before.
ServiceStart ==
    [isInitialized |-> FALSE, summarizer |-> 0, initializationPromise |-> 0,
     attempts |-> <<>>, createCalls |-> 0, callers |-> <<>>, disposals |-> 0]

Caller(id) == [awaits |-> id, outcome |-> "pending"]

\* initialize() starting performInitialization whenever it is not
\* initialized.
StartsInitialization_NoPromiseCheck(svc) == ~svc.isInitialized

\* initialize(): performInitialization starts only if the summarizerService is not
\* initialized and no initializationPromise is held.
StartsInitialization(svc) == ~svc.isInitialized /\ svc.initializationPromise = 0

\* initialize(): returns at once when initialized; starts
\* performInitialization, which throws at once without the API and else
\* awaits Summarizer.availability(); or returns the promise it holds.
CallInitialize ==
    /\ Len(summarizerService.callers) < MaxInitializeCalls
    /\ summarizerService' =
          IF summarizerService.isInitialized
          THEN [summarizerService EXCEPT !.callers = Append(@, Caller(0))]
          ELSE IF StartsInitialization(summarizerService)
          THEN LET id == Len(summarizerService.attempts) + 1
               IN [summarizerService EXCEPT
                      !.attempts = Append(@, IF apiSupported THEN "availability"
                                                             ELSE "rejected"),
                      !.initializationPromise = id,
                      !.callers = Append(@, Caller(id))]
          ELSE [summarizerService EXCEPT
                   !.callers = Append(@, Caller(summarizerService.initializationPromise))]
    /\ UNCHANGED <<storeVars, envVars, uiVars, pageVars, fnCall, summarizationStatus, tabState,
                   icon, iconCalls, updateStage, summaryTimers, runs, summarizer,
                   summarizerOptions, generateCalls, startups, cleaning>>

\* performInitialization: Summarizer.availability() settles; 'unavailable'
\* throws, else Summarizer.create is called.
Availabilities == {"available", "unavailable"}
AvailabilitySettled(id, availability) ==
    /\ id \in 1..Len(summarizerService.attempts)
    /\ summarizerService.attempts[id] = "availability"
    /\ summarizerService' =
          IF availability = "unavailable"
          THEN [summarizerService EXCEPT !.attempts[id] = "rejected"]
          ELSE [summarizerService EXCEPT !.attempts[id] = "create", !.createCalls = @ + 1]
    /\ UNCHANGED <<storeVars, envVars, uiVars, pageVars, fnCall, summarizationStatus, tabState,
                   icon, iconCalls, updateStage, summaryTimers, runs, summarizer,
                   summarizerOptions, generateCalls, startups, cleaning>>

\* ... Summarizer.create settles: this.summarizer is set and
\* this.summarizer.ready is awaited, or the error is thrown on.
CreateSettled(id, ok) ==
    /\ id \in 1..Len(summarizerService.attempts)
    /\ summarizerService.attempts[id] = "create"
    /\ summarizerService' =
          IF ok THEN [summarizerService EXCEPT !.attempts[id] = "ready", !.summarizer = id]
          ELSE [summarizerService EXCEPT !.attempts[id] = "rejected"]
    /\ UNCHANGED <<storeVars, envVars, uiVars, pageVars, fnCall, summarizationStatus, tabState,
                   icon, iconCalls, updateStage, summaryTimers, runs, summarizer,
                   summarizerOptions, generateCalls, startups, cleaning>>

\* ... the ready promise of the created summarizer settles: isInitialized
\* is set, or the error is thrown on.
ReadySettled(id, ok) ==
    /\ id \in 1..Len(summarizerService.attempts)
    /\ summarizerService.attempts[id] = "ready"
    /\ summarizerService' =
          IF ok THEN [summarizerService EXCEPT !.attempts[id] = "resolved", !.isInitialized = TRUE]
          ELSE [summarizerService EXCEPT !.attempts[id] = "rejected"]
    /\ UNCHANGED <<storeVars, envVars, uiVars, pageVars, fnCall, summarizationStatus, tabState,
                   icon, iconCalls, updateStage, summaryTimers, runs, summarizer,
                   summarizerOptions, generateCalls, startups, cleaning>>

\* The await of an initialize() call ends: at once for a call that returned
\* without a promise, else as the attempt it waits for has ended.
InitializeReturned(i) ==
    /\ i \in 1..Len(summarizerService.callers)
    /\ summarizerService.callers[i].outcome = "pending"
    /\ LET id == summarizerService.callers[i].awaits
           ended == IF id = 0 THEN "resolved" ELSE summarizerService.attempts[id]
       IN /\ ended \in {"resolved", "rejected"}
          /\ summarizerService' = [summarizerService EXCEPT !.callers[i].outcome = ended]
    /\ UNCHANGED <<storeVars, envVars, uiVars, pageVars, fnCall, summarizationStatus, tabState,
                   icon, iconCalls, updateStage, summaryTimers, runs, summarizer,
                   summarizerOptions, generateCalls, startups, cleaning>>

\* dispose()
Dispose ==
    /\ summarizerService.disposals < MaxDisposals
    /\ summarizerService' = [summarizerService EXCEPT !.summarizer = 0, !.isInitialized = FALSE,
                                  !.initializationPromise = 0, !.disposals = @ + 1]
    /\ UNCHANGED <<storeVars, envVars, uiVars, pageVars, fnCall, summarizationStatus, tabState,
                   icon, iconCalls, updateStage, summaryTimers, runs, summarizer,
                   summarizerOptions, generateCalls, startups, cleaning>>

\* summarize(text): what its first statement does.
Summarize(svc) ==
    IF ~svc.isInitialized \/ svc.summarizer = 0
    THEN "throws Summarizer not initialized" ELSE "calls summarizer.summarize"

(***************************************************************************)
(* Initial states                                                           *)
(***************************************************************************)
\* After installation no tab record is stored and the settings are the
\* defaults onInstalled has saved (or not yet saved).
SettingsInit ==
    /\ storedSettings \in {None, Some(DefaultSettings)}
    /\ localTab = [t \in Tabs |-> None]

UiInit ==
    /\ popup = PopupClosed
    /\ options = OptionsClosed

BgIdle ==
    /\ tabState = [t \in Tabs |-> None]
    /\ icon = [t \in Tabs |-> IconDefault]
    /\ iconCalls = [t \in Tabs |-> [get |-> 0, sync |-> 0]]
    /\ updateStage = [t \in Tabs |-> "idle"]
    /\ summaryTimers = [t \in Tabs |-> 0]
    /\ runs = [t \in Tabs |-> NoRuns]
    /\ summarizer = "fresh"
    /\ summarizerOptions = None
    /\ generateCalls = [t \in Tabs |-> 0]
    /\ startups = 0
    /\ cleaning = None
    /\ summarizerService = ServiceStart

BgInit ==
    /\ summarizationStatus = [t \in Tabs |-> None]
    /\ BgIdle

AllTabsOpen == tabOpen = [t \in Tabs |-> TRUE]
ClockStart == now = 0

(***************************************************************************)
(* SpecPopup: protecting sites from the popup of tab 1 and the options      *)
(* page, over the shared list.  Another site may already be protected.      *)
(***************************************************************************)
PopupTab == 1

InitPopup ==
    /\ storedSites \in {<<>>, <<HostB>>}
    /\ storedSettings = Some(DefaultSettings)
    /\ localTab = [t \in Tabs |-> None]
    /\ UiInit /\ BgInit /\ AllTabsOpen /\ ClockStart /\ NoMessages /\ PageIdle
    /\ apiSupported = TRUE
    /\ fnCall = None

NextPopup ==
    \/ PopupOpen
    \/ \E t \in {PopupTab, NoTab} : PopupQueryDone(t)
    \/ LoadSettings
    \/ LoadProtectedSites
    \/ \E outcome \in NoReplyOutcomes : CheckAIStatus(outcome)
    \/ \E outcome \in NoReplyOutcomes : LoadTabSummary(outcome)
    \/ ToggleClick
    \/ ToggleWritten
    \/ RecommendationProtectClick
    \/ RecommendationProtectWritten
    \/ PopupClose
    \/ OptionsOpen
    \/ OptionsLoaded
    \/ \E site \in Hosts \cup {<<>>} : OptionsRemoveClick(site)
    \/ OptionsRendered
    \/ OptionsClose

SpecPopup == InitPopup /\ [][NextPopup]_vars

\* SpecRecs: the popup alone, with the AI toggle and both recommendations.
NextRecs ==
    \/ PopupOpen
    \/ PopupQueryDone(PopupTab)
    \/ LoadSettings
    \/ LoadProtectedSites
    \/ \E outcome \in NoReplyOutcomes : CheckAIStatus(outcome)
    \/ \E outcome \in NoReplyOutcomes : LoadTabSummary(outcome)
    \/ ToggleClick
    \/ ToggleWritten
    \/ RecommendationProtectClick
    \/ RecommendationProtectWritten
    \/ PopupClose
    \/ AiToggleChange
    \/ RecommendationEnableAIClick
    \/ RecommendationEnableAIWritten

SpecRecs == InitPopup /\ [][NextRecs]_vars

(***************************************************************************)
(* SpecPopupAI: the AI section of the popup: the two settings toggles, the  *)
(* AI status and the Generate Summary button.                               *)
(***************************************************************************)
InitPopupAI ==
    /\ storedSites = <<>>
    /\ SettingsInit
    /\ UiInit /\ BgInit /\ AllTabsOpen /\ ClockStart /\ NoMessages /\ PageIdle
    /\ apiSupported \in BOOLEAN
    /\ fnCall = None

NextPopupAI ==
    \/ PopupOpen
    \/ \E t \in Tabs \cup {NoTab} : PopupQueryDone(t)
    \/ LoadSettings
    \/ LoadProtectedSites
    \/ \E outcome \in NoReplyOutcomes : CheckAIStatus(outcome)
    \/ \E outcome \in NoReplyOutcomes : LoadTabSummary(outcome)
    \/ AiToggleChange
    \/ AutoSummarizeToggleChange
    \/ RecommendationEnableAIClick
    \/ RecommendationEnableAIWritten
    \/ GenerateSummaryClick
    \/ \E outcome \in NoReplyOutcomes : GenerateSummarySettled(outcome)
    \/ PopupClose

SpecPopupAI == InitPopupAI /\ [][NextPopupAI]_vars

\* The steps of the popup whose completion the browser's event loop
\* guarantees while the popup stays open: every pending promise settles.
FairSpecPopupAI ==
    /\ SpecPopupAI
    /\ WF_vars(LoadSettings)
    /\ WF_vars(LoadProtectedSites)
    /\ WF_vars(\E outcome \in NoReplyOutcomes : CheckAIStatus(outcome))
    /\ WF_vars(\E outcome \in NoReplyOutcomes : LoadTabSummary(outcome))
    /\ WF_vars(RecommendationEnableAIWritten)
    /\ WF_vars(\E outcome \in NoReplyOutcomes : GenerateSummarySettled(outcome))

(***************************************************************************)
(* Claims about the popup                                                   *)
(***************************************************************************)
AllHostnames == Hosts \cup {<<>>}

\* C3: each click on the protection button of a popup that has finished
\* loading flips the membership of the current hostname in the stored
\* protectedSites list, leaves every other hostname of the stored list as it
\* was, and once the click's write has resolved the button reads 'Unprotect
\* this Site' exactly when the current hostname is in the stored list.
C3_ToggleFlipsStoredMembership ==
    [][ /\ (popup.stage = "ready" /\ popup'.pendingToggle = popup.pendingToggle + 1) =>
            /\ ListIncludes(storedSites', popup.currentHostname)
                    # ListIncludes(storedSites, popup.currentHostname)
            /\ \A h \in AllHostnames \ {popup.currentHostname} :
                    ListIncludes(storedSites', h) = ListIncludes(storedSites, h)
        /\ (popup.stage = "ready" /\ popup'.stage = "ready"
                /\ popup'.pendingToggle = popup.pendingToggle - 1) =>
            ((popup'.buttonText = "Unprotect this Site")
                <=> ListIncludes(storedSites', popup'.currentHostname))
      ]_vars

\* C5: settings persist across popup sessions: whenever the toggles of a
\* popup are live, the stored settings record holds exactly the values the
\* two toggles show (the values last chosen), and nothing changes the stored
\* record while no popup has live toggles; so a popup opened later loads
\* the values last chosen.
C5_SettingsRoundTrip ==
    /\ [](popup.togglesWired =>
            /\ GetSettings.aiFeaturesEnabled = popup.aiToggle
            /\ GetSettings.autoSummarize = popup.autoSummarizeToggle)
    /\ [][~popup.togglesWired => storedSettings' = storedSettings]_vars

\* A popup opened after both toggles had been switched off in an earlier
\* one has loaded them as switched off.
C5_Witness ==
    /\ popup.togglesWired
    /\ IsSome(popup.loadedSettings)
    /\ ~Val(popup.loadedSettings).aiFeaturesEnabled
    /\ ~Val(popup.loadedSettings).autoSummarize
    /\ ~popup.aiToggle /\ ~popup.autoSummarizeToggle

\* C6: once the popup's CHECK_AI_STATUS exchange has settled without
\* throwing, the popup shows 'AI features available' with the Generate
\* Summary button enabled when the Summarizer API is supported, and
\* 'AI features not available' with the button disabled when it is not.
C6_AIStatusFollowsSupport ==
    (popup.stage = "summary" /\ popup.pendingGenerate = 0
        /\ popup.aiStatusText # "Error checking AI status") =>
        IF apiSupported
        THEN popup.aiStatusText = "AI features available" /\ ~popup.generateDisabled
        ELSE popup.aiStatusText = "AI features not available" /\ popup.generateDisabled

\* C7: after a click on 'Generate Summary' for a tab with a URL, a title and
\* content, with the Summarizer supported, a summary for that tab is
\* eventually stored in the tab's record (where GET_TAB_SUMMARY reads it).
C7_GenerateStoresSummary ==
    \A t \in Tabs :
        (popup.pendingGenerate > 0 /\ popup.currentTabId = t /\ apiSupported)
            ~> (IsSome(localTab[t]) /\ IsSome(Val(localTab[t]).summary))

\* C13 as stated: every rendering of the recommendations of a popup that
\* has finished loading displays the protection recommendation exactly when
\* the current hostname is not in the popup's protectedSites list and the
\* enable-AI recommendation exactly when aiFeaturesEnabled is false; and the
\* rendering that ends the handler of a click on a recommendation no longer
\* displays that recommendation.
RenderStep ==
    /\ popup'.stage = "ready"
    /\ \/ popup.stage = "summary"
       \/ popup'.pendingToggle < popup.pendingToggle
       \/ popup'.pendingProtect < popup.pendingProtect
       \/ popup'.pendingEnableAI < popup.pendingEnableAI
RenderedExactly ==
    RenderStep =>
        /\ ("protection" \in popup'.recommendations)
                <=> ~ListIncludes(popup'.protectedSites, popup'.currentHostname)
        /\ ("ai" \in popup'.recommendations)
                <=> ~Val(popup'.settings).aiFeaturesEnabled
C13_ActedRecommendationGone ==
    [][ /\ RenderedExactly
        /\ (popup'.stage = "ready" /\ popup'.pendingProtect < popup.pendingProtect) =>
                "protection" \notin popup'.recommendations
        /\ (popup'.stage = "ready" /\ popup'.pendingEnableAI < popup.pendingEnableAI) =>
                "ai" \notin popup'.recommendations
      ]_vars

\* C13, amended: every rendering is exact as above; a click on 'Protect
\* Site' puts the current hostname into the popup's list and the stored
\* list, a click on 'Enable AI' sets aiFeaturesEnabled in the popup's and
\* the stored settings and checks the toggle; so the rendering that ends the
\* click's handler no longer displays the recommendation unless the user
\* has reversed the action by then.
C13_RecommendationsFollowState ==
    [][ /\ RenderedExactly
        /\ (popup'.pendingProtect > popup.pendingProtect) =>
                /\ ListIncludes(popup'.protectedSites, popup.currentHostname)
                /\ ListIncludes(storedSites', popup.currentHostname)
        /\ (popup'.pendingEnableAI > popup.pendingEnableAI) =>
                /\ Val(popup'.settings).aiFeaturesEnabled
                /\ popup'.aiToggle
                /\ IsSome(storedSettings') /\ Val(storedSettings').aiFeaturesEnabled
      ]_vars

\* The user has clicked 'Enable AI', whose handler still awaits its write,
\* and a rendering made since (the one ending a click that protected the
\* site) displays neither recommendation: the site is protected and AI is
\* enabled.
C13_Witness ==
    /\ popup.stage = "ready"
    /\ popup.pendingEnableAI > 0 /\ popup.pendingProtect = 0 /\ popup.pendingToggle = 0
    /\ popup.recommendations = {}
    /\ ListIncludes(popup.protectedSites, popup.currentHostname)
    /\ Val(popup.settings).aiFeaturesEnabled

\* C14: the stored protectedSites list is a set: no hostname occurs in it
\* more than once, whatever the popup's toggle and 'Protect Site' clicks
\* and the options page's Remove clicks were.
NoDuplicates(list) == \A i, j \in 1..Len(list) : list[i] = list[j] => i = j
C14_StoredSitesIsASet == NoDuplicates(storedSites)

\* C21: one source of truth for protected sites: after every protect or
\* unprotect action (a write of the protectedSites list by the popup or the
\* options page), the hostnames StorageService.getProtectedSites returns
\* are the hostnames of the list GET_PROTECTION_STATUS and updateIcon read.
SameHostnames(a, b) == \A h \in Hosts : ListIncludes(a, h) <=> ListIncludes(b, h)
C21_OneSourceOfProtectedSites ==
    [][storedSites' # storedSites => SameHostnames(GetProtectedSites', storedSites')]_vars

\* C22: no lost update on the protected list: with the popup and the
\* options page both loaded, each holding its own copy of protectedSites, a
\* write by one of them changes the stored list in nothing but the hostname
\* that page acted on (the one added to or removed from its own copy), so
\* that a hostname the other page added stays and one it removed stays out.
ActedOn(h) ==
    \/ ListIncludes(popup.protectedSites, h) # ListIncludes(popup'.protectedSites, h)
    \/ ListIncludes(options.protectedSites, h) # ListIncludes(options'.protectedSites, h)
C22_NoLostUpdate ==
    [][(popup.stage = "ready" /\ options.stage = "ready") =>
            \A h \in Hosts :
                ListIncludes(storedSites, h) # ListIncludes(storedSites', h) => ActedOn(h)]_vars

(***************************************************************************)
(* SpecFn: shouldSummarizeTab called on every combination of its inputs.    *)
(* settings.protectedSites is empty in every state the extension reaches    *)
(* (no caller of saveSettings passes another list); the list the user       *)
(* protects sites in is the 'protectedSites' key.                           *)
(***************************************************************************)
ContentLengths == {0, MinContentLength - 1, MinContentLength, MinContentLength + 1}
FnTab == 1

InitFn ==
    /\ storedSites \in {<<>>, <<HostA>>, <<HostB>>, <<HostA, HostB>>}
    /\ storedSettings \in {None} \cup
            {Some([aiFeaturesEnabled |-> ai, autoSummarize |-> auto, protectedSites |-> <<>>]) :
                ai \in BOOLEAN, auto \in BOOLEAN}
    /\ localTab = [t \in Tabs |-> None]
    /\ UiInit /\ AllTabsOpen /\ ClockStart /\ NoMessages /\ PageIdle /\ BgIdle
    /\ apiSupported \in BOOLEAN
    /\ summarizationStatus \in
            [Tabs -> {None, Some([isProcessing |-> TRUE, errorCount |-> 0]),
                            Some([isProcessing |-> FALSE, errorCount |-> 0])}]
    /\ fnCall = None

\* await shouldSummarizeTab(tabId, url, content)
CallShouldSummarizeTab(url, contentLen) ==
    /\ fnCall' = Some([url |-> url, contentLen |-> contentLen,
                       result |-> ShouldSummarizeTab(FnTab, url, contentLen)])
    /\ UNCHANGED <<storeVars, envVars, uiVars, pageVars, bgVars>>

NextFn == \E url \in Urls, contentLen \in ContentLengths : CallShouldSummarizeTab(url, contentLen)

SpecFn == InitFn /\ [][NextFn]_vars

\* C8: shouldSummarizeTab returns true exactly when AI features are enabled,
\* the Summarizer API is supported, the tab is not marked isProcessing, the
\* content has at least 200 characters, and either the tab's hostname is a
\* protected site (one of the stored protectedSites) or auto-summarize is
\* enabled and the lower-cased URL contains 'blog', 'article', 'news' or
\* 'docs'.
C8_ShouldSummarizeExactly ==
    IsSome(fnCall) =>
        LET c == Val(fnCall)
        IN c.result <=>
            /\ IsAIFeaturesEnabled
            /\ apiSupported
            /\ ~(IsSome(summarizationStatus[FnTab])
                    /\ Val(summarizationStatus[FnTab]).isProcessing)
            /\ c.contentLen >= 200
            /\ \/ ListIncludes(storedSites, Hostname(c.url))
               \/ /\ IsAutoSummarizeEnabled
                  /\ \E kw \in {KwBlog, KwArticle, KwNews, KwDocs} :
                        StrIncludes(ToLowerCase(c.url), kw)

(***************************************************************************)
(* SpecType: determineSummaryType called on contents made of two pieces of  *)
(* text and on URLs with and without its keywords.                          *)
(***************************************************************************)
UrlArticle == <<"h", "t", "t", "p", ":", "/", "/", "a", ".", "i", "o", "/", "A", "R", "T", "I", "C", "L", "E">>
UrlDrive == <<"h", "t", "t", "p", "s", ":", "/", "/", "d", "r", "i", "v", "e", ".", "i", "o", "/">>
UrlOffice == <<"h", "t", "t", "p", "s", ":", "/", "/", "a", ".", "i", "o", "/", "o", "f", "f", "i", "c", "e">>
TypeUrls == Urls \cup {UrlArticle, UrlDrive, UrlOffice}

TextPieces ==
    {<<>>, KwFormTag, KwInput, KwTextarea, <<"t", "e", "x", "t">>, <<"I", "n", "p", "u", "t">>,
     <<"f", "o", "r", "m">>, <<" ">>}
Contents == {a \o b : a \in TextPieces, b \in TextPieces}

InitType ==
    /\ storedSites = <<>>
    /\ storedSettings = Some(DefaultSettings)
    /\ localTab = [t \in Tabs |-> None]
    /\ UiInit /\ BgInit /\ AllTabsOpen /\ ClockStart /\ NoMessages /\ PageIdle
    /\ apiSupported = TRUE
    /\ fnCall = None

\* this.determineSummaryType(content, url)
CallDetermineSummaryType(content, url) ==
    /\ fnCall' = Some([content |-> content, url |-> url,
                       result |-> DetermineSummaryType(content, url)])
    /\ UNCHANGED <<storeVars, envVars, uiVars, pageVars, bgVars>>

NextType == \E content \in Contents, url \in TypeUrls : CallDetermineSummaryType(content, url)

SpecType == InitType /\ [][NextType]_vars

\* C27: determineSummaryType returns 'key-points' whenever the content
\* contains '<form', 'input' or 'textarea', whatever the URL; otherwise
\* 'teaser' if the lower-cased URL contains 'blog', 'article' or 'news';
\* otherwise 'tldr' if it contains 'docs', 'drive' or 'office'; otherwise
\* 'key-points'.  It never returns 'headline'.
ContentHasFormWords(content) ==
    \E kw \in {KwFormTag, KwInput, KwTextarea} : StrIncludes(content, kw)
UrlHasAny(url, kws) == \E kw \in kws : StrIncludes(ToLowerCase(url), kw)
C27_DetermineSummaryType ==
    IsSome(fnCall) =>
        LET c == Val(fnCall)
            teaserUrl == UrlHasAny(c.url, {KwBlog, KwArticle, KwNews})
            tldrUrl == UrlHasAny(c.url, {KwDocs, KwDrive, KwOffice})
        IN  /\ ContentHasFormWords(c.content) => c.result = "key-points"
            /\ (~ContentHasFormWords(c.content) /\ teaserUrl) => c.result = "teaser"
            /\ (~ContentHasFormWords(c.content) /\ ~teaserUrl /\ tldrUrl) => c.result = "tldr"
            /\ (~ContentHasFormWords(c.content) /\ ~teaserUrl /\ ~tldrUrl)
                    => c.result = "key-points"
            /\ c.result # "headline"

\* Content with the word 'input' on a blog URL gave 'key-points'.
C27_Witness ==
    /\ IsSome(fnCall)
    /\ StrIncludes(Val(fnCall).content, KwInput)
    /\ Val(fnCall).url = UrlBlog
    /\ Val(fnCall).result = "key-points"

(***************************************************************************)
(* SpecAnalysis: performContentAnalysis called on documents with up to      *)
(* MaxAnalysisForms forms of up to two fields, with and without article     *)
(* and editor elements.                                                     *)
(***************************************************************************)
MaxAnalysisForms == 3

FormShapes ==
    {<<Field("TEXTAREA", FALSE)>>, <<Field("INPUT", TRUE)>>,
     <<Field("INPUT", TRUE), Field("SELECT", TRUE)>>}
AnalysisLayouts ==
    {[forms |-> forms, looseInput |-> FALSE, editable |-> editable, article |-> article,
      autoSave |-> FALSE, textLength |-> 0] :
        forms \in UNION {[1..n -> FormShapes] : n \in 0..MaxAnalysisForms},
        editable \in BOOLEAN, article \in BOOLEAN}

InitAnalysis ==
    /\ storedSites = <<>>
    /\ storedSettings = Some(DefaultSettings)
    /\ localTab = [t \in Tabs |-> None]
    /\ UiInit /\ BgInit /\ AllTabsOpen /\ ClockStart /\ NoMessages
    /\ apiSupported = TRUE
    /\ fnCall = None
    /\ page \in AnalysisLayouts
    /\ domValues = [f \in FormIds |-> [i \in FieldIds(f) |-> ""]]
    /\ cs = CsStart
    /\ trackers = <<>>
    /\ feedback = {} /\ feedbackTimers = {} /\ feedbackCreated = 0
    /\ lastStateMsg = "none"
    /\ lastUnload = None
    /\ unsavedWork = FALSE

\* await performContentAnalysis()
CallPerformContentAnalysis ==
    /\ fnCall = None
    /\ fnCall' = Some([result |-> PerformContentAnalysis])
    /\ UNCHANGED <<storeVars, envVars, uiVars, pageVars, bgVars>>

NextAnalysis == CallPerformContentAnalysis

SpecAnalysis == InitAnalysis /\ [][NextAnalysis]_vars

\* C26: performContentAnalysis classifies with this precedence: 'form' if
\* the page has at least one form; else 'article' if it has an article /
\* main element; else 'document' if it has an editor / contenteditable
\* element; else 'general'.  For a form page, complexity is low / medium /
\* high for 1 / 2 / more than 2 forms and riskLevel is low / medium / high
\* for at most 2 / 3 to 5 / more than 5 required fields.
RECURSIVE RequiredIn(_)
RequiredIn(fields) ==
    IF fields = <<>> THEN 0
    ELSE (IF Head(fields).required THEN 1 ELSE 0) + RequiredIn(Tail(fields))
RECURSIVE RequiredFields(_)
RequiredFields(forms) ==
    IF forms = <<>> THEN 0 ELSE RequiredIn(Head(forms)) + RequiredFields(Tail(forms))
C26_ContentAnalysisPrecedence ==
    IsSome(fnCall) =>
        LET r == Val(fnCall).result
            nForms == Len(page.forms)
            nRequired == RequiredFields(page.forms)
        IN  /\ nForms >= 1 => r.contentType = "form"
            /\ (nForms = 0 /\ page.article) => r.contentType = "article"
            /\ (nForms = 0 /\ ~page.article /\ page.editable) => r.contentType = "document"
            /\ (nForms = 0 /\ ~page.article /\ ~page.editable) => r.contentType = "general"
            /\ nForms = 1 => r.complexity = "low"
            /\ nForms = 2 => r.complexity = "medium"
            /\ nForms > 2 => r.complexity = "high"
            /\ (nForms >= 1 /\ nRequired <= 2) => r.riskLevel = "low"
            /\ (nForms >= 1 /\ nRequired \in 3..5) => r.riskLevel = "medium"
            /\ (nForms >= 1 /\ nRequired > 5) => r.riskLevel = "high"

\* A page with three forms, six required fields and an article element was
\* analysed as a form page of high complexity and high risk.
C26_Witness ==
    /\ IsSome(fnCall)
    /\ Len(page.forms) = 3 /\ RequiredFields(page.forms) = 6 /\ page.article
    /\ Val(fnCall).result.contentType = "form"
    /\ Val(fnCall).result.complexity = "high"
    /\ Val(fnCall).result.riskLevel = "high"

(***************************************************************************)
(* SpecPage: one page with its content script and the background's answer   *)
(* to GET_PROTECTION_STATUS, in the first 30 s after the script started.    *)
(***************************************************************************)
PageStart ==
    /\ page \in Layouts
    /\ domValues = [f \in FormIds |-> [i \in FieldIds(f) |-> ""]]
    /\ cs = CsStart
    /\ trackers = <<>>
    /\ feedback = {} /\ feedbackTimers = {} /\ feedbackCreated = 0
    /\ lastStateMsg = "none"
    /\ lastUnload = None
    /\ unsavedWork = FALSE

InitPage ==
    /\ storedSites \in {<<>>, <<PageHost>>}
    /\ SettingsInit
    /\ UiInit /\ BgInit /\ AllTabsOpen /\ ClockStart /\ NoMessages
    /\ apiSupported = TRUE
    /\ fnCall = None
    /\ PageStart

NextPage ==
    \/ BgGetProtectionStatus
    \/ InitializeContentScript
    \/ \E f \in 1..2, v \in FieldValues : FieldInput(f, 1, v)
    \/ LooseInput
    \/ EditableInput
    \/ \E f \in 1..2 : FormSubmit(f)
    \/ BeforeUnload
    \/ \E id \in 1..MaxFeedback : FeedbackClose(id)
    \/ \E id \in 1..MaxFeedback : FeedbackTimeout(id)

SpecPage == InitPage /\ [][NextPage]_vars

\* Every message gets its answer, every armed timer fires.
FairSpecPage ==
    /\ SpecPage
    /\ WF_vars(BgGetProtectionStatus)
    /\ WF_vars(InitializeContentScript)
    /\ \A id \in 1..MaxFeedback : WF_vars(FeedbackTimeout(id))

(***************************************************************************)
(* SpecSuggest: the same page watched for longer than the 30 s of the       *)
(* auto-save timer.                                                         *)
(***************************************************************************)
NextSuggest ==
    \/ NextPage
    \/ AutoSaveTimerFired
    \/ \E f \in 0..2 : SuggestionSaveNow(f)
    \/ SuggestionClose
    \/ SuggestionTimeout

SpecSuggest == InitPage /\ [][NextSuggest]_vars

\* Every message gets its answer, every armed timer fires.
FairSpecSuggest ==
    /\ SpecSuggest
    /\ WF_vars(BgGetProtectionStatus)
    /\ WF_vars(InitializeContentScript)
    /\ \A id \in 1..MaxFeedback : WF_vars(FeedbackTimeout(id))
    /\ WF_vars(AutoSaveTimerFired)
    /\ WF_vars(SuggestionTimeout)

(***************************************************************************)
(* SpecForms: a page whose own script adds forms while the user fills in    *)
(* the ones that are there.                                                 *)
(***************************************************************************)
LayoutSelectForm ==
    [forms |-> << <<Field("SELECT", TRUE)>> >>,
     looseInput |-> FALSE, editable |-> FALSE, article |-> FALSE,
     autoSave |-> FALSE, textLength |-> 0]

InitForms ==
    /\ storedSites \in {<<>>, <<PageHost>>}
    /\ storedSettings = Some(DefaultSettings)
    /\ localTab = [t \in Tabs |-> None]
    /\ UiInit /\ BgInit /\ AllTabsOpen /\ ClockStart /\ NoMessages
    /\ apiSupported = TRUE
    /\ fnCall = None
    /\ page = LayoutSelectForm
    /\ domValues = [f \in FormIds |-> [i \in FieldIds(f) |-> ""]]
    /\ cs = CsStart
    /\ trackers = <<>>
    /\ feedback = {} /\ feedbackTimers = {} /\ feedbackCreated = 0
    /\ lastStateMsg = "none"
    /\ lastUnload = None
    /\ unsavedWork = FALSE

NextForms ==
    \/ BgGetProtectionStatus
    \/ InitializeContentScript
    \/ \E f \in 1..MaxForms, v \in FieldValues : FieldInput(f, 1, v)
    \/ \E f \in 1..MaxForms : FormSubmit(f)
    \/ \E wrapped \in BOOLEAN : FormAdded(<<Field("INPUT", FALSE)>>, wrapped)
    \/ BeforeUnload
    \/ \E id \in 1..MaxFeedback : FeedbackClose(id)
    \/ \E id \in 1..MaxFeedback : FeedbackTimeout(id)

SpecForms == InitForms /\ [][NextForms]_vars

(***************************************************************************)
(* SpecPagePopup: the same page, with the popup of its tab protecting and   *)
(* unprotecting the site while the page is open.                            *)
(***************************************************************************)
InitPagePopup ==
    /\ storedSites = <<>>
    /\ SettingsInit
    /\ UiInit /\ BgInit /\ AllTabsOpen /\ ClockStart /\ NoMessages
    /\ apiSupported = TRUE
    /\ fnCall = None
    /\ PageStart
    /\ page = LayoutOptionalOnly

NextPagePopup ==
    \/ BgGetProtectionStatus
    \/ InitializeContentScript
    \/ \E v \in FieldValues : FieldInput(1, 1, v)
    \/ FormSubmit(1)
    \/ BeforeUnload
    \/ PopupOpen
    \/ PopupQueryDone(PageTab)
    \/ LoadSettings
    \/ LoadProtectedSites
    \/ \E outcome \in NoReplyOutcomes : CheckAIStatus(outcome)
    \/ \E outcome \in NoReplyOutcomes : LoadTabSummary(outcome)
    \/ ToggleClick
    \/ ToggleWritten
    \/ PopupClose

SpecPagePopup == InitPagePopup /\ [][NextPagePopup]_vars

(***************************************************************************)
(* Claims about the content script                                          *)
(***************************************************************************)
\* What the last 'beforeunload' step did.
UnloadStep == lastUnload' # lastUnload
Warned(u) == IsSome(u) /\ Val(u).warned /\ Val(u).message.kind # "none"

\* The content script knows of unsaved changes: the flag of the document
\* listener or of the current form is set.
TrackedUnsaved ==
    /\ cs.stage = "ready"
    /\ \/ cs.hasUnsavedChanges
       \/ cs.currentFormData # 0 /\ trackers[cs.currentFormData].hasUnsavedChanges

\* C1: once unsaved work exists (an input event the running content script
\* saw on an INPUT, TEXTAREA or contenteditable element, or a tracked
\* form-field change, with no submit after it), every beforeunload event
\* produces the leave warning.
C1_UnsavedWorkAlwaysWarns ==
    [][(UnloadStep /\ unsavedWork) => Warned(lastUnload')]_vars

\* C2: after 'Protect this Site' was clicked in the popup for the host of
\* the open tab (the host is stored and the button reads 'Unprotect this
\* Site'), a beforeunload in that tab, whose content script knows of unsaved
\* changes, produces the leave warning, without a reload of the page.
C2_ProtectTakesEffectWithoutReload ==
    [][(/\ UnloadStep
        /\ popup.stage = "ready" /\ popup.buttonText = "Unprotect this Site"
        /\ popup.currentHostname = PageHost
        /\ ListIncludes(storedSites, PageHost)
        /\ TrackedUnsaved) => Warned(lastUnload')]_vars

\* C10: a tracked field change that brings a form's completionPercentage to
\* 80 or more while warningShown is false shows a completion notification,
\* and every completion notification shown is eventually removed from the
\* page.
FeedbackIds == 1..MaxFeedback
C10_CompletionFeedbackShownAndRemoved ==
    /\ [][\A k \in 1..Len(trackers) :
            (/\ cs.stage = "ready"
             /\ trackers'[k].values # trackers[k].values
             /\ AtLeast(trackers'[k].completionPercentage, 80)
             /\ ~cs.warningShown) => feedback' \ feedback # {}]_vars
    /\ \A id \in FeedbackIds : (id \in feedback) ~> (id \notin feedback)

\* A notification was shown for a completed form and its timer took it away:
\* nobody dismissed it and the form was not submitted.
C10_Witness ==
    /\ feedbackCreated > 0 /\ feedback = {} /\ feedbackTimers = {}
    /\ ~cs.warningShown
    /\ \E k \in 1..Len(trackers) :
          /\ trackers[k].hasUnsavedChanges
          /\ AtLeast(trackers[k].completionPercentage, 80)

\* C11: on a form page without auto-save markers, once the first form has
\* unsaved changes and keeps them (no save), the 'Consider saving your
\* progress' suggestion is eventually shown, unless the user has dismissed
\* feedback; however long after the script's initialization the changes
\* were made.
C11_AutoSaveSuggestionShown ==
    (/\ cs.stage = "ready" /\ ~page.autoSave
     /\ cs.currentFormData # 0 /\ trackers[cs.currentFormData].hasUnsavedChanges)
    ~> (\/ cs.suggestionCreated
        \/ cs.warningShown
        \/ cs.currentFormData = 0
        \/ ~trackers[cs.currentFormData].hasUnsavedChanges)

\* C12: when the leave warning fires, its message states the first form's
\* completionPercentage if a first form is tracked and that percentage is
\* greater than 0; otherwise, if a first form is tracked and a content
\* analysis exists, it names the analysis' content type and estimated time;
\* otherwise it is the generic unsaved-changes message.
C12_WarningMessageChoice ==
    [][(UnloadStep /\ Val(lastUnload').warned) =>
        LET m == Val(lastUnload').message
            tracked == cs.currentFormData # 0
            pct == IF tracked THEN trackers[cs.currentFormData].completionPercentage ELSE NaN
        IN  IF tracked /\ pct # NaN /\ pct > 0
            THEN m.kind = "percent" /\ m.percentage = pct
            ELSE IF tracked /\ IsSome(cs.contentAnalysis)
            THEN /\ m.kind = "analysis"
                 /\ m.contentType = Val(cs.contentAnalysis).contentType
                 /\ m.estimatedTime = Val(cs.contentAnalysis).estimatedTime
            ELSE m.kind = "generic"]_vars

\* The warning fired for a first form whose required field holds only a
\* blank (0 % complete): it named the content type and the estimated time.
C12_Witness ==
    /\ IsSome(lastUnload) /\ Val(lastUnload).warned
    /\ Val(lastUnload).message.kind = "analysis"
    /\ Val(lastUnload).message.contentType = "form"
    /\ cs.currentFormData # 0
    /\ trackers[cs.currentFormData].completionPercentage = 0
    /\ trackers[cs.currentFormData].hasUnsavedChanges

\* C17: after a submit event with no input after it (CHANGES_SAVED is the
\* last state message the script has sent, which leaves the background's
\* tabState at hasUnsavedChanges false, and no tracked form holds unsaved
\* changes), the content script's warn condition is false as well, and a
\* beforeunload produces no warning.
AfterSubmit ==
    /\ lastStateMsg = "CHANGES_SAVED"
    /\ \A k \in 1..Len(trackers) : ~trackers[k].hasUnsavedChanges
C17_SubmitClearsUnsavedState ==
    /\ [](AfterSubmit => ~TrackedUnsaved)
    /\ [][(UnloadStep /\ AfterSubmit) => ~Val(lastUnload').warned]_vars

\* C24: unsaved form state survives DOM changes: when a dynamically added
\* form makes the MutationObserver run form detection again, the unsaved
\* flag and the completionPercentage of the first form's FormDataInfo (the
\* one currentFormData refers to, which the beforeunload listener reads)
\* are what they were before.
DetectionStep == Len(page'.forms) > Len(page.forms) /\ Len(trackers') > Len(trackers)
C24_FormStateSurvivesDetection ==
    [][(DetectionStep /\ cs.currentFormData # 0) =>
            LET before == trackers[cs.currentFormData]
                after == trackers'[cs'.currentFormData]
            IN  /\ after.hasUnsavedChanges = before.hasUnsavedChanges
                /\ after.completionPercentage = before.completionPercentage]_vars

\* C25: for every tracked form, completionPercentage is an integer between
\* 0 and 100, after any sequence of field changes and submits.
C25_CompletionPercentageInRange ==
    \A k \in 1..Len(trackers) : trackers[k].completionPercentage \in 0..100

(***************************************************************************)
(* SpecIcon: the background's icon for two tabs that report unsaved and     *)
(* saved changes, while the options page removes protected sites.           *)
(***************************************************************************)
InitIcon ==
    /\ storedSites \in {<<>>, <<HostA>>, <<HostA, HostB>>}
    /\ storedSettings = Some(DefaultSettings)
    /\ localTab = [t \in Tabs |-> None]
    /\ UiInit /\ BgInit /\ AllTabsOpen /\ ClockStart /\ NoMessages /\ PageIdle
    /\ apiSupported = TRUE
    /\ fnCall = None

NextIcon ==
    \/ \E t \in Tabs : BgOnUnsavedChanges(t)
    \/ \E t \in Tabs : BgOnChangesSaved(t)
    \/ \E t \in Tabs : IconTabsGetDone(t)
    \/ \E t \in Tabs : IconStorageDone(t)
    \/ \E t \in Tabs : TabRemoved(t)
    \/ OptionsOpen
    \/ OptionsLoaded
    \/ \E site \in Hosts : OptionsRemoveClick(site)
    \/ OptionsRendered
    \/ OptionsClose

SpecIcon == InitIcon /\ [][NextIcon]_vars

\* Every promise and callback of updateIcon is settled by the browser.
FairSpecIcon ==
    /\ SpecIcon
    /\ \A t \in Tabs : WF_vars(IconTabsGetDone(t)) /\ WF_vars(IconStorageDone(t))

\* C4: after UNSAVED_CHANGES_DETECTED from a tab, the tab's icon is
\* eventually set to the warning icon if the tab's hostname is in the stored
\* protectedSites list (and the tab is still there); the check of an open
\* tab whose hostname is in the list sets the warning icon; and the warning
\* icon is only ever set by a check that finds the hostname in the list.
IconCheckStep(t) == iconCalls'[t].sync < iconCalls[t].sync
C4_WarningIconFollowsStoredList ==
    /\ \A t \in Tabs :
          (iconCalls[t].get > 0)
            ~> (icon[t] = IconWarning \/ ~ListIncludes(storedSites, TabHost(t)) \/ ~tabOpen[t])
    /\ [][\A t \in Tabs :
            /\ (IconCheckStep(t) /\ tabOpen[t] /\ ListIncludes(storedSites, TabHost(t)))
                    => icon'[t] = IconWarning
            /\ (icon[t] # IconWarning /\ icon'[t] = IconWarning)
                    => (IconCheckStep(t) /\ ListIncludes(storedSites, TabHost(t)))]_vars

\* One tab got the warning icon for its protected host while the other,
\* whose host is not in the list, was checked and kept the default icon.
C4_Witness ==
    /\ icon[1] = IconWarning /\ ListIncludes(storedSites, TabHost(1))
    /\ HasUnsavedChanges(1) /\ iconCalls[1] = [get |-> 0, sync |-> 0]
    /\ icon[2] = IconDefault /\ ~ListIncludes(storedSites, TabHost(2))
    /\ HasUnsavedChanges(2) /\ iconCalls[2] = [get |-> 0, sync |-> 0]

\* C18: if CHANGES_SAVED is the last state message the background received
\* from a tab (its tabState entry says hasUnsavedChanges false), then once
\* no step of updateIcon is pending for the tab, the tab's icon is the
\* default icon.
C18_IconRevertsAfterSaved ==
    \A t \in Tabs :
        (/\ tabState[t] = Some([hasUnsavedChanges |-> FALSE])
         /\ iconCalls[t] = [get |-> 0, sync |-> 0]) => icon[t] = IconDefault

(***************************************************************************)
(* SpecSumm: tab updates that lead to summaries, while the user switches    *)
(* AI summarization on and off in the popup.                                *)
(***************************************************************************)
InitSumm ==
    /\ storedSites = <<>>
    /\ storedSettings = Some(DefaultSettings)
    /\ localTab = [t \in Tabs |-> None]
    /\ UiInit /\ BgInit /\ AllTabsOpen /\ ClockStart /\ NoMessages /\ PageIdle
    /\ apiSupported = TRUE
    /\ fnCall = None

NextSumm ==
    \/ \E t \in Tabs : TabUpdated(t)
    \/ \E t \in Tabs, contentLen \in ContentLengths : ExtractTabContentDone(t, contentLen)
    \/ \E t \in Tabs : SummaryTimerFired(t)
    \/ \E outcome \in InitializationOutcomes : PerformInitializationSettled(outcome)
    \/ \E t \in Tabs : GenerateAfterInitialize(t)
    \/ \E t \in Tabs, ok \in BOOLEAN : SummarizeSettled(t, ok)
    \/ \E t \in Tabs : UpdateTabSummarySaved(t)
    \/ PopupOpen
    \/ PopupQueryDone(PopupTab)
    \/ LoadSettings
    \/ AiToggleChange
    \/ PopupClose

SpecSumm == InitSumm /\ [][NextSumm]_vars

\* C9: while the aiFeaturesEnabled setting is false, the background never
\* invokes the summarizer: no generateTabSummary run reaches its call of
\* initialize() or of summarize().
C9_NoSummarizerWhileAIDisabled ==
    [][\A t \in Tabs :
          (\/ runs'[t].init > runs[t].init
           \/ runs'[t].summarize > runs[t].summarize) => IsAIFeaturesEnabled]_vars

(***************************************************************************)
(* SpecBg: the background alone: tab updates, GENERATE_SUMMARY messages     *)
(* from tabs, startup events and tabs being closed, with the Summarizer API *)
(* supported or not.                                                        *)
(***************************************************************************)
InitBg ==
    /\ storedSites = <<>>
    /\ storedSettings = Some(DefaultSettings)
    /\ localTab = [t \in Tabs |-> None]
    /\ UiInit /\ BgInit /\ AllTabsOpen /\ ClockStart /\ NoMessages /\ PageIdle
    /\ apiSupported \in BOOLEAN
    /\ fnCall = None

\* Tab LoadedTab (a blog page) is loaded, updated and closed while watched;
\* all tabs send GENERATE_SUMMARY.
LoadedTab == 2

NextBg ==
    \/ TabUpdated(LoadedTab)
    \/ \E contentLen \in ContentLengths : ExtractTabContentDone(LoadedTab, contentLen)
    \/ \E t \in Tabs : SummaryTimerFired(t)
    \/ \E t \in Tabs : BgOnGenerateSummary(t)
    \/ \E t \in Tabs, contentLen \in ContentLengths : GenerateSummaryExtracted(t, contentLen)
    \/ \E outcome \in InitializationOutcomes : PerformInitializationSettled(outcome)
    \/ \E t \in Tabs : GenerateAfterInitialize(t)
    \/ \E t \in Tabs, ok \in BOOLEAN : SummarizeSettled(t, ok)
    \/ \E t \in Tabs : UpdateTabSummarySaved(t)
    \/ Startup
    \/ StartupAfterInitialize
    \/ TabRemoved(LoadedTab)

SpecBg == InitBg /\ [][NextBg]_vars

(***************************************************************************)
(* SpecBgFailed: the behaviours of SpecBg in which the summarizer never     *)
(* becomes ready: performInitialization throws, whether the API is missing  *)
(* or not.  A summarizer that has failed stays failed and one that is ready *)
(* never fails, so these are all the behaviours of SpecBg that reach a      *)
(* failed initialization.                                                   *)
(***************************************************************************)
NextBgFailed ==
    \/ TabUpdated(LoadedTab)
    \/ \E contentLen \in ContentLengths : ExtractTabContentDone(LoadedTab, contentLen)
    \/ \E t \in Tabs : SummaryTimerFired(t)
    \/ \E t \in Tabs : BgOnGenerateSummary(t)
    \/ \E t \in Tabs, contentLen \in ContentLengths : GenerateSummaryExtracted(t, contentLen)
    \/ PerformInitializationSettled("failed")
    \/ \E t \in Tabs : GenerateAfterInitialize(t)
    \/ Startup
    \/ StartupAfterInitialize
    \/ TabRemoved(LoadedTab)

SpecBgFailed == InitBg /\ [][NextBgFailed]_vars

(***************************************************************************)
(* Claims about the background's summarization                              *)
(***************************************************************************)
HasStoredSummary(t) == IsSome(localTab[t]) /\ IsSome(Val(localTab[t]).summary)
IsProcessing(t) == IsSome(summarizationStatus[t]) /\ Val(summarizationStatus[t]).isProcessing

\* No asynchronous work of the background is pending for tab t.
Quiescent(t) ==
    /\ updateStage[t] = "idle"
    /\ summaryTimers[t] = 0
    /\ RunsOf(t) = 0
    /\ generateCalls[t] = 0
    /\ iconCalls[t] = [get |-> 0, sync |-> 0]

C16_UnsupportedFallsBack ==
    ~apiSupported =>
        \A t \in Tabs :
            /\ ~HasStoredSummary(t)
            /\ Quiescent(t) => ~IsProcessing(t)

\* Without the API, a GENERATE_SUMMARY for the loaded tab ended in the
\* catch block: the error is counted, the tab is not processing, its
\* record holds no summary.
C16_Witness ==
    /\ ~apiSupported /\ summarizer = "failed" /\ startups = 0
    /\ Quiescent(LoadedTab)
    /\ summarizationStatus[LoadedTab] = Some([isProcessing |-> FALSE, errorCount |-> 1])
    /\ IsSome(localTab[LoadedTab]) /\ ~HasStoredSummary(LoadedTab)

\* C19: once a tab is closed and no asynchronous work started for it is
\* pending, there is no tabState entry, no summarizationStatus entry and no
\* stored tab_<tabId> record for it.
C19_ClosedTabLeavesNoState ==
    \A t \in Tabs :
        (~tabOpen[t] /\ Quiescent(t)) =>
            /\ tabState[t] = None
            /\ summarizationStatus[t] = None
            /\ localTab[t] = None

\* C20: at most one summarization is in flight per tab: a generateTabSummary
\* run for a tab starts only while no earlier run for that tab is
\* unfinished.
C20_OneSummarizationPerTab ==
    [][\A t \in Tabs : runs'[t].init > runs[t].init => RunsOf(t) = 0]_vars

\* C23: the type and length recorded in a stored TabSummary are the type and
\* length the summarizer that produced it was created with.
C23_SummaryRecordsSummarizerConfig ==
    \A t \in Tabs :
        HasStoredSummary(t) =>
            /\ IsSome(summarizerOptions)
            /\ Val(Val(localTab[t]).summary).type = Val(summarizerOptions).type
            /\ Val(Val(localTab[t]).summary).length = Val(summarizerOptions).length

(***************************************************************************)
(* SpecStore: the tab records over days: records left by earlier use, the   *)
(* loaded tab updated, summarized and closed, and the cleanup of a browser  *)
(* start.                                                                   *)
(***************************************************************************)
\* Records written on day 0, before the behaviour starts.
EarlierTabData ==
    {None} \cup {Some([hasUnsavedChanges |-> u, summary |-> None, lastUpdated |-> 0]) :
                      u \in BOOLEAN}

InitStore ==
    /\ storedSites = <<>>
    /\ storedSettings = Some(DefaultSettings)
    /\ localTab \in [Tabs -> EarlierTabData]
    /\ UiInit /\ BgInit /\ AllTabsOpen /\ ClockStart /\ NoMessages /\ PageIdle
    /\ apiSupported = TRUE
    /\ fnCall = None

NextStore ==
    \/ TabUpdated(LoadedTab)
    \/ \E contentLen \in ContentLengths : ExtractTabContentDone(LoadedTab, contentLen)
    \/ SummaryTimerFired(LoadedTab)
    \/ \E outcome \in InitializationOutcomes : PerformInitializationSettled(outcome)
    \/ GenerateAfterInitialize(LoadedTab)
    \/ \E ok \in BOOLEAN : SummarizeSettled(LoadedTab, ok)
    \/ UpdateTabSummarySaved(LoadedTab)
    \/ Startup
    \/ StartupAfterInitialize
    \/ \E t \in Tabs : CleanupRemoveTabData(t)
    \/ TabRemoved(LoadedTab)
    \/ \E days \in {1, SummaryRetentionDays} : TimePasses(days)

SpecStore == InitStore /\ [][NextStore]_vars

(***************************************************************************)
(* Claims about the tab records                                             *)
(***************************************************************************)
\* C28: cleanupOldSummaries removes only tab records whose lastUpdated is
\* older than the retention time and whose hasUnsavedChanges is false: a
\* record that is newer, or has unsaved changes, is left as it is by each
\* of its steps, and so are the other keys.
C28_CleanupRemovesOnlyOldRecords ==
    [][(IsSome(cleaning) /\ cleaning' # cleaning) =>
            /\ storedSites' = storedSites /\ storedSettings' = storedSettings
            /\ \A t \in Tabs :
                  (IsSome(localTab[t]) /\ localTab'[t] # localTab[t]) =>
                      /\ Val(localTab[t]).lastUpdated < now - SummaryRetentionDays
                      /\ ~Val(localTab[t]).hasUnsavedChanges]_vars

\* C29: when handleTabUpdate rewrites the record of a tab on a later
\* 'complete' update (the tab's URL is the same), the summary stored for the
\* tab is still the one GET_TAB_SUMMARY returns.
C29_SummaryKeptAcrossUpdates ==
    [][\A t \in Tabs :
            (/\ updateStage[t] = "extract" /\ updateStage'[t] = "idle"
             /\ tabOpen[t] /\ HasStoredSummary(t)) =>
                ReplyGetTabSummary(t)' = ReplyGetTabSummary(t)]_vars

\* C30: updateTabSummary writes only to an existing record: when it saves
\* while no record of the tab is stored, local storage stays as it is; when
\* a record is stored, the record stays but for its summary and
\* lastUpdated.
C30_UpdateTabSummaryOnlyExisting ==
    [][\A t \in Tabs :
            Len(runs'[t].update) < Len(runs[t].update) =>
                IF IsSome(localTab[t])
                THEN /\ IsSome(localTab'[t])
                     /\ Val(localTab'[t]).hasUnsavedChanges = Val(localTab[t]).hasUnsavedChanges
                     /\ \A u \in Tabs \ {t} : localTab'[u] = localTab[u]
                ELSE localTab' = localTab]_vars

(***************************************************************************)
(* SpecMsg: requests to the background from the popup and from the page of  *)
(* tab PageTab, each sent once, while the tab may be closed.                *)
(***************************************************************************)
InitMsg ==
    /\ storedSites \in {<<>>, <<HostA>>}
    /\ storedSettings = Some(DefaultSettings)
    /\ localTab = [t \in Tabs |-> None]
    /\ UiInit /\ BgInit /\ AllTabsOpen /\ ClockStart /\ NoMessages /\ PageIdle
    /\ apiSupported = TRUE
    /\ fnCall = None

AnsweredByCallback == RequestActions \ {"GENERATE_SUMMARY"}

NextMsg ==
    \/ \E action \in RequestActions, sender \in Senders : SendMessage(action, sender)
    \/ \E action \in RequestActions, sender \in Senders : OnMessage(action, sender)
    \/ \E action \in AnsweredByCallback, sender \in Senders : SendResponse(action, sender)
    \/ GenerateSummaryTabsGet(PageTab)
    \/ \E contentLen \in ContentLengths : GenerateSummaryAnswered(PageTab, contentLen)
    \/ \E outcome \in InitializationOutcomes : PerformInitializationSettled(outcome)
    \/ GenerateAfterInitialize(PageTab)
    \/ \E ok \in BOOLEAN : SummarizeSettled(PageTab, ok)
    \/ UpdateTabSummarySaved(PageTab)
    \/ TabRemoved(PageTab)

SpecMsg == InitMsg /\ [][NextMsg]_vars

\* The listener runs for every delivered message, and the asynchronous
\* calls it makes settle.
FairSpecMsg ==
    /\ SpecMsg
    /\ \A action \in RequestActions, sender \in Senders : WF_vars(OnMessage(action, sender))
    /\ \A action \in AnsweredByCallback, sender \in Senders :
            WF_vars(SendResponse(action, sender))
    /\ WF_vars(GenerateSummaryTabsGet(PageTab))
    /\ WF_vars(\E contentLen \in ContentLengths : GenerateSummaryAnswered(PageTab, contentLen))

(***************************************************************************)
(* Claims about the listener's answers                                      *)
(***************************************************************************)
\* C31: every GET_PROTECTION_STATUS, GENERATE_SUMMARY, GET_TAB_SUMMARY and
\* CHECK_AI_STATUS message delivered to the background, from a page or from
\* the popup, is eventually answered, by exactly one sendResponse call.
C31_EveryRequestAnsweredOnce ==
    /\ [](\A action \in RequestActions, sender \in Senders :
            Len(messages[action, sender].replies) <= 1)
    /\ \A action \in RequestActions, sender \in Senders :
            (messages[action, sender].stage = "delivered")
                ~> (Len(messages[action, sender].replies) = 1)

(***************************************************************************)
(* SpecRuns: the generateTabSummary runs of one tab, started by its updates *)
(* and by GENERATE_SUMMARY messages from it, until the tab is closed.       *)
(***************************************************************************)
NextRuns ==
    \/ TabUpdated(LoadedTab)
    \/ \E contentLen \in ContentLengths : ExtractTabContentDone(LoadedTab, contentLen)
    \/ SummaryTimerFired(LoadedTab)
    \/ BgOnGenerateSummary(LoadedTab)
    \/ \E contentLen \in ContentLengths : GenerateSummaryExtracted(LoadedTab, contentLen)
    \/ \E outcome \in InitializationOutcomes : PerformInitializationSettled(outcome)
    \/ GenerateAfterInitialize(LoadedTab)
    \/ \E ok \in BOOLEAN : SummarizeSettled(LoadedTab, ok)
    \/ UpdateTabSummarySaved(LoadedTab)
    \/ TabRemoved(LoadedTab)

SpecRuns == InitBg /\ [][NextRuns]_vars

\* The promises of the summarizer and of the storage settle.
FairSpecRuns ==
    /\ SpecRuns
    /\ WF_vars(\E outcome \in InitializationOutcomes : PerformInitializationSettled(outcome))
    /\ WF_vars(GenerateAfterInitialize(LoadedTab))
    /\ WF_vars(\E ok \in BOOLEAN : SummarizeSettled(LoadedTab, ok))
    /\ WF_vars(UpdateTabSummarySaved(LoadedTab))

\* C32: when a generateTabSummary run of a tab finishes, by success or by
\* error, the tab's summarizationStatus entry (if there is one) has
\* isProcessing false; and the tab whose runs are followed, once marked as
\* processing, does not stay so forever.
C32_ProcessingFlagCleared ==
    /\ [][\A t \in Tabs : RunsOf(t)' < RunsOf(t) => ~IsProcessing(t)']_vars
    /\ IsProcessing(LoadedTab) ~> ~IsProcessing(LoadedTab)

\* Two runs of the loaded tab have finished: the first stored its summary,
\* the second ended in the catch block; the tab is not marked as processing.
C32_Witness ==
    /\ RunsOf(LoadedTab) = 0
    /\ HasStoredSummary(LoadedTab)
    /\ summarizationStatus[LoadedTab] = Some([isProcessing |-> FALSE, errorCount |-> 1])

(***************************************************************************)
(* SpecToggle: the popup as the only writer of the protected sites, with    *)
(* writes of its button that succeed and writes that fail.                  *)
(***************************************************************************)
NextToggle ==
    \/ PopupOpen
    \/ \E t \in {PopupTab, NoTab} : PopupQueryDone(t)
    \/ LoadSettings
    \/ LoadProtectedSites
    \/ \E outcome \in NoReplyOutcomes : CheckAIStatus(outcome)
    \/ \E outcome \in NoReplyOutcomes : LoadTabSummary(outcome)
    \/ ToggleClick
    \/ ToggleWritten
    \/ ToggleClickWriteFailed
    \/ PopupClose

SpecToggle == InitPopup /\ [][NextToggle]_vars

\* C33: a failed write of the protection button leaves the popup's state as
\* it was: once the popup is loaded and no write of the button is pending,
\* its protectedSites list equals the stored list and the button's label
\* says what the next click does (Unprotect when the site is in the popup's
\* list, Protect when it is not).
C33_FailedWriteLeavesState ==
    (popup.stage = "ready" /\ popup.pendingToggle = 0) =>
        /\ popup.protectedSites = storedSites
        /\ popup.buttonText = IF ListIncludes(popup.protectedSites, popup.currentHostname)
                              THEN "Unprotect this Site" ELSE "Protect this Site"

(***************************************************************************)
(* SpecInitialize: initialize() called several times, before and after the  *)
(* attempt settles.  SpecService: the same with dispose().                  *)
(***************************************************************************)
NextInitialize ==
    \/ CallInitialize
    \/ \E id \in 1..MaxInitializeCalls, availability \in Availabilities :
            AvailabilitySettled(id, availability)
    \/ \E id \in 1..MaxInitializeCalls, ok \in BOOLEAN : CreateSettled(id, ok)
    \/ \E id \in 1..MaxInitializeCalls, ok \in BOOLEAN : ReadySettled(id, ok)
    \/ \E i \in 1..MaxInitializeCalls : InitializeReturned(i)

SpecInitialize == InitBg /\ [][NextInitialize]_vars

NextService ==
    \/ NextInitialize
    \/ Dispose

SpecService == InitBg /\ [][NextService]_vars

(***************************************************************************)
(* Claims about SummarizerService                                           *)
(***************************************************************************)
\* The initialize() calls that got a promise to wait for.
Waiting ==
    {i \in 1..Len(summarizerService.callers) : summarizerService.callers[i].awaits # 0}

C35_DisposedStaysUninitialized ==
    /\ summarizerService.initializationPromise = 0 =>
          /\ ~summarizerService.isInitialized
          /\ Summarize(summarizerService) = "throws Summarizer not initialized"
    /\ summarizerService.isInitialized => summarizerService.summarizer # 0
====
